---------------------------- MODULE Spec2Model ----------------------------
(***************************************************************************)
(* Parquet page decoding of libgdf: the ColumnReader state machine         *)
(* (src/src/parquet/column_reader.cu), the hybrid RLE decoder              *)
(* (src/unnamed/part_002, rle_decoder.h), the definition-level to bitmap   *)
(* conversion and ToGdfColumn.                                             *)
(***************************************************************************)
EXTENDS Integers, Sequences, FiniteSets, TLC

(***************************************************************************)
(* Bounds of the model.                                                    *)
(***************************************************************************)
MaxPages == 2
MaxRows == 2
MaxBatch == 2

(***************************************************************************)
(* Small helpers.                                                          *)
(***************************************************************************)
Min(a, b) == IF a < b THEN a ELSE b

Max(a, b) == IF a > b THEN a ELSE b

Take(s, n) == SubSeq(s, 1, Min(n, Len(s)))

Drop(s, n) == SubSeq(s, Min(n, Len(s)) + 1, Len(s))

RECURSIVE CountEq(_, _)
CountEq(s, v) ==
    IF s = <<>> THEN 0
    ELSE (IF Head(s) = v THEN 1 ELSE 0) + CountEq(Tail(s), v)

SeqsUpTo(S, n) == UNION {[1..k -> S] : k \in 0..n}

\* out with n copies of v, or with vals, stored from position from (0-based) on
Fill(out, from, n, v) ==
    [i \in DOMAIN out |-> IF from < i /\ i <= from + n THEN v ELSE out[i]]

WriteAt(out, from, vals) ==
    [i \in DOMAIN out |-> IF from < i /\ i <= from + Len(vals) THEN vals[i - from] ELSE out[i]]

(***************************************************************************)
(* The reader: one ColumnReader bound to a column descriptor and a page    *)
(* source.                                                                 *)
(***************************************************************************)
VARIABLES
    NDEBUG,                  \* build flag: TRUE compiles DCHECK/assert away
    pages,                   \* the page source of the column chunk
    descr,                   \* the ColumnDescriptor
    pager_pos,               \* pages already handed out by pager_->NextPage()
    num_buffered_values_,
    num_decoded_values_,
    decoders_,               \* keys of the decoder cache
    current_decoder_,
    dictionary,              \* the dictionary bound by SetDict
    decoder_data,            \* per cached decoder: the values left after SetData
    definition_levels_left,  \* definition_level_decoder_: levels not yet decoded
    repetition_levels_left,  \* repetition_level_decoder_: levels not yet decoded
    aborted,                 \* the process died (failed DCHECK/assert, null decoder)
    call                     \* observation of the last operation

readerVars == <<NDEBUG, pages, descr, pager_pos, num_buffered_values_,
                num_decoded_values_, decoders_, current_decoder_, dictionary,
                decoder_data, definition_levels_left, repetition_levels_left,
                aborted, call>>

readerState == <<pages, descr, pager_pos, num_buffered_values_,
                 num_decoded_values_, decoders_, current_decoder_, dictionary,
                 decoder_data, definition_levels_left, repetition_levels_left, call>>

VARIABLES
    rle_buffer,              \* RleDecoder: the bytes handed to the bit reader
    bit_width_,
    bit_pos,                 \* bit_reader_: bits consumed from rle_buffer
    current_value_,
    repeat_count_,
    literal_count_,
    rle_runs,                \* the run sequence rle_buffer was encoded from
    rle_intact,              \* rle_buffer is the whole encoding of rle_runs
    rle_taken,               \* values counted as decoded since the last Reset
    rle_call                 \* observation of the last decoder operation

rleVars == <<rle_buffer, bit_width_, bit_pos, current_value_, repeat_count_,
             literal_count_, rle_runs, rle_intact, rle_taken, rle_call>>

VARIABLES
    bm_in,                   \* arguments of a _DefinitionLevelsToBitmap call
    bm_out                   \* its result

bmVars == <<bm_in, bm_out>>

VARIABLES
    row_groups,              \* the file: per row group the pages of the column chunk
    row_group_index,         \* _ReadFile: the row groups read so far
    gdf_column,              \* the output column allocated by _AllocateGdfColumn
    status,                  \* where read_parquet stands, or what it ended with
    column_type,             \* the column descriptor's physical and logical type
    alloc_fail,              \* which buffer of _AllocateGdfColumn cannot be acquired
    dtype,                   \* gdf_column.dtype
    heap,                    \* the allocations of the read that are live
    out_gdf_columns          \* *out_gdf_columns, *out_gdf_columns_length

fileVars == <<row_groups, row_group_index, gdf_column, status, column_type, alloc_fail, dtype, heap, out_gdf_columns>>

VARIABLES
    parked,                  \* a second ColumnReader, of another column, not running
    ops,                     \* the operations the running reader has executed
    switches                 \* how often the two readers have taken turns

twoVars == <<parked, ops, switches>>

VARIABLES
    column_names,            \* ColumnNames: the names of the file's columns
    filter_names,            \* ColumnFilter: the names the caller asked for
    read_call                \* what read_parquet selected, allocated and reported

apiVars == <<column_names, filter_names, read_call>>

VARIABLES
    op_calls                 \* the getOperatorName calls made: operator and name

binVars == <<op_calls>>

NoError == "none"
ErrMoreThanOneDictionary == "ParquetException: Column cannot have more than one dictionary."
ErrDictionaryNYI == "ParquetException: Not yet implemented: only plain dictionary encoding has been implemented."
ErrDictionaryBeforeData == "ParquetException: Dictionary page must be before data page."
ErrUnsupportedEncoding == "ParquetException: Not yet implemented: Unsupported encoding."
ErrUnknownEncoding == "ParquetException: Unknown encoding type."
ErrLevelsMismatch == "ParquetException: Number of decoded rep / def levels did not match"
ErrLevelExceedsMax == "ParquetException: definition level exceeds maximum"
Abort == "abort"

\* the call never returns
Diverges == "diverges"

\* the call ran into undefined behaviour
Undefined == "undefined"

NullDecoder == "nullptr"

DecoderKeys == {"PLAIN", "RLE_DICTIONARY"}

(***************************************************************************)
(* Pages.  A data page carries its definition levels, its repetition       *)
(* levels and its value stream (dictionary indices under a dictionary      *)
(* encoding); a dictionary page carries the dictionary values.             *)
(***************************************************************************)
Dict == <<7, 8>>

PlainValues(k) == [i \in 1..k |-> 10 * i]

IndexValues(k) == [i \in 1..k |-> i % 2]

DataPage(enc, d, lv, present) ==
    [type |-> "DATA_PAGE", encoding |-> enc,
     num_values |-> IF d.max_def > 0 THEN Len(lv) ELSE present,
     def_levels |-> IF d.max_def > 0 THEN lv ELSE <<>>,
     rep_levels |-> IF d.max_rep > 0
                    THEN [i \in 1..(IF d.max_def > 0 THEN Len(lv) ELSE present) |-> 0]
                    ELSE <<>>,
     values |-> IF enc \in {"PLAIN_DICTIONARY", "RLE_DICTIONARY"}
                THEN IndexValues(present) ELSE PlainValues(present)]

DictionaryPage(enc) ==
    [type |-> "DICTIONARY_PAGE", encoding |-> enc, num_values |-> Len(Dict),
     def_levels |-> <<>>, rep_levels |-> <<>>, values |-> Dict]

IndexPage ==
    [type |-> "INDEX_PAGE", encoding |-> "PLAIN", num_values |-> 0,
     def_levels |-> <<>>, rep_levels |-> <<>>, values |-> <<>>]

\* the row shapes of a page: its definition levels when levels are encoded,
\* and else only its number of values
Shapes(d, n) ==
    IF d.max_def > 0
    THEN {[lv |-> s, present |-> CountEq(s, d.max_def)] : s \in SeqsUpTo(0..d.max_def, n)}
    ELSE {[lv |-> <<>>, present |-> k] : k \in 0..n}

PagePool(d) ==
    {DataPage("PLAIN", d, s.lv, s.present) : s \in Shapes(d, MaxRows)}
    \cup {DataPage("RLE_DICTIONARY", d, s.lv, s.present) : s \in Shapes(d, 1)}
    \cup {DataPage("PLAIN_DICTIONARY", d, s.lv, s.present) :
             s \in {x \in Shapes(d, 1) : x.present = 1}}
    \cup {DataPage(e, d, s.lv, s.present) :
             e \in {"DELTA_BINARY_PACKED", "BIT_PACKED"},
             s \in {x \in Shapes(d, 1) : x.present = 1}}
    \cup {DictionaryPage(e) : e \in {"PLAIN", "PLAIN_DICTIONARY", "DELTA_BYTE_ARRAY"}}
    \cup {IndexPage}

\* required: the leaf node is required; optional: the leaf or one of its
\* ancestors is optional
Descriptors ==
    {[max_def |-> 0, max_rep |-> 0, required |-> TRUE, optional |-> FALSE],
     [max_def |-> 1, max_rep |-> 0, required |-> FALSE, optional |-> TRUE],
     [max_def |-> 1, max_rep |-> 1, required |-> TRUE, optional |-> FALSE]}

(***************************************************************************)
(* The reader's fields as one record, so that the operations compose.      *)
(***************************************************************************)
Reader ==
    [pos |-> pager_pos, nbuf |-> num_buffered_values_, ndec |-> num_decoded_values_,
     decoders |-> decoders_, cur |-> current_decoder_, dict |-> dictionary,
     data |-> decoder_data, deflv |-> definition_levels_left,
     replv |-> repetition_levels_left]

\* the test with PLAIN_DICTIONARY left out
IsRleDictionaryOnly(e) == e = "RLE_DICTIONARY"

Outcome(r, ret, err) == [r |-> r, ret |-> ret, err |-> err]

IsDictionaryIndexEncoding(e) == e = "RLE_DICTIONARY" \/ e = "PLAIN_DICTIONARY"

\* _ConfigureDictionary without the lookup in the decoder cache: a later
\* dictionary page replaces the dictionary
ConfigureDictionaryRebinds(r, page) ==
    IF page.encoding = "PLAIN_DICTIONARY" \/ page.encoding = "PLAIN"
    THEN Outcome([r EXCEPT !.decoders = @ \cup {"RLE_DICTIONARY"},
                           !.dict = Take(page.values, page.num_values),
                           !.cur = "RLE_DICTIONARY"], TRUE, NoError)
    ELSE Outcome(r, FALSE, ErrDictionaryNYI)

\* _ConfigureDictionary: the dictionary page configures the one dictionary
\* decoder of the column
ConfigureDictionary(r, page) ==
    LET plain == page.encoding = "PLAIN_DICTIONARY" \/ page.encoding = "PLAIN"
        encoding == IF plain THEN "RLE_DICTIONARY" ELSE page.encoding
    IN  IF encoding \in r.decoders
        THEN Outcome(r, FALSE, ErrMoreThanOneDictionary)
        ELSE IF plain
        THEN Outcome([r EXCEPT !.decoders = @ \cup {encoding},
                               !.dict = Take(page.values, page.num_values),
                               !.cur = encoding], TRUE, NoError)
        ELSE Outcome(r, FALSE, ErrDictionaryNYI)

\* the page's counters as ReadNewPage sets them
PageCountersKeepDecoded(r, page) == [r EXCEPT !.nbuf = page.num_values]

PageCounters(r, page) == [r EXCEPT !.nbuf = page.num_values, !.ndec = 0]

\* the DATA_PAGE branch of ReadNewPage
ConfigureDataPage(r, page) ==
    LET r1 == [PageCounters(r, page) EXCEPT
                        !.replv = IF descr.max_rep > 0 THEN page.rep_levels ELSE @,
                        !.deflv = IF descr.max_def > 0 THEN page.def_levels ELSE @]
        encoding == IF IsDictionaryIndexEncoding(page.encoding)
                    THEN "RLE_DICTIONARY" ELSE page.encoding
        bind(rr, key) == [rr EXCEPT !.cur = key, !.data[key] = page.values]
    IN  IF encoding \in r1.decoders
        THEN IF encoding = "RLE_DICTIONARY" /\ ~NDEBUG /\ r1.cur # "RLE_DICTIONARY"
             THEN Outcome(r1, FALSE, Abort)      \* the DCHECK fails
             ELSE Outcome(bind(r1, encoding), TRUE, NoError)
        ELSE CASE encoding = "PLAIN" ->
                    Outcome(bind([r1 EXCEPT !.decoders = @ \cup {"PLAIN"}], "PLAIN"),
                            TRUE, NoError)
               [] encoding = "RLE_DICTIONARY" ->
                    Outcome(r1, FALSE, ErrDictionaryBeforeData)
               [] encoding \in {"DELTA_BINARY_PACKED", "DELTA_LENGTH_BYTE_ARRAY",
                                "DELTA_BYTE_ARRAY"} ->
                    Outcome(r1, FALSE, ErrUnsupportedEncoding)
               [] OTHER -> Outcome(r1, FALSE, ErrUnknownEncoding)

\* ReadNewPage giving up at a page that is neither a dictionary nor a data
\* page
RECURSIVE ReadNewPageStopsAtOther(_)
ReadNewPageStopsAtOther(r) ==
    IF r.pos >= Len(pages)
    THEN Outcome(r, FALSE, NoError)
    ELSE LET page == pages[r.pos + 1]
             r1 == [r EXCEPT !.pos = @ + 1]
         IN  IF page.type = "DICTIONARY_PAGE"
             THEN LET c == ConfigureDictionary(r1, page)
                  IN  IF c.err # NoError THEN c ELSE ReadNewPageStopsAtOther(c.r)
             ELSE IF page.type = "DATA_PAGE"
             THEN ConfigureDataPage(r1, page)
             ELSE Outcome(r1, FALSE, NoError)

RECURSIVE ReadNewPage(_)
ReadNewPage(r) ==
    IF r.pos >= Len(pages)
    THEN Outcome(r, FALSE, NoError)
    ELSE LET page == pages[r.pos + 1]
             r1 == [r EXCEPT !.pos = @ + 1]
         IN  IF page.type = "DICTIONARY_PAGE"
             THEN LET c == ConfigureDictionary(r1, page)
                  IN  IF c.err # NoError THEN c ELSE ReadNewPage(c.r)
             ELSE IF page.type = "DATA_PAGE"
             THEN ConfigureDataPage(r1, page)
             ELSE ReadNewPage(r1)

\* HasNext over a page position that the readers of a process share
HasNextSharedPager(r) ==
    IF r.nbuf = 0 \/ r.ndec = r.nbuf
    THEN LET p == ReadNewPage([r EXCEPT !.pos = Max(r.pos, parked.r.pos)])
         IN  IF p.err # NoError THEN p
             ELSE IF ~p.ret \/ p.r.nbuf = 0
             THEN Outcome(p.r, FALSE, NoError)
             ELSE Outcome(p.r, TRUE, NoError)
    ELSE Outcome(r, TRUE, NoError)

HasNext(r) ==
    IF r.nbuf = 0 \/ r.ndec = r.nbuf
    THEN LET p == ReadNewPage(r)
         IN  IF p.err # NoError THEN p
             ELSE IF ~p.ret \/ p.r.nbuf = 0
             THEN Outcome(p.r, FALSE, NoError)
             ELSE Outcome(p.r, TRUE, NoError)
    ELSE Outcome(r, TRUE, NoError)

(***************************************************************************)
(* Level and value decoding as the reader uses it.                         *)
(***************************************************************************)
\* ReadDefinitionLevels / ReadRepetitionLevels: LevelDecoder::Decode hands out
\* at most batch_size of the levels left in the page
ReadLevels(left, batch_size) == Take(left, batch_size)

\* Decoder::Decode of the current decoder: PlainDecoder copies the next
\* values, DictionaryDecoder resolves the next indices in the dictionary
DecodeValues(r, n) ==
    LET raw == Take(r.data[r.cur], n)
    IN  IF r.cur = "RLE_DICTIONARY"
        THEN [i \in 1..Len(raw) |-> r.dict[raw[i] + 1]]
        ELSE raw

ConsumeValues(r, n) == [r EXCEPT !.data[r.cur] = Drop(@, n)]

\* ConsumeBufferedValues
ConsumeBufferedValues(r, n) == [r EXCEPT !.ndec = @ + n]

BatchResult(r, ret, err, values_read, levels, values) ==
    [r |-> r, ret |-> ret, err |-> err, values_read |-> values_read,
     def_levels |-> levels, values |-> values]

\* the values ReadBatch asks the decoder for: one per decoded definition level
\* equal to max_definition_level, or batch_size when no levels are read
ValuesToReadDropsNulls(useDef, levels, batch_size) ==
    IF useDef THEN Len(levels) - CountEq(levels, 0) ELSE batch_size

ValuesToRead(useDef, levels, batch_size) ==
    IF useDef THEN CountEq(levels, descr.max_def) ELSE batch_size

\* the rows ReadBatch reports and consumes
TotalValuesIsValuesRead(num_def_levels, values_read) == values_read

TotalValues(num_def_levels, values_read) == Max(num_def_levels, values_read)

\* ReadBatch from line 464 on: the values are decoded and the rows consumed
ReadBatchValues(r1, levels, values) ==
    BatchResult(ConsumeBufferedValues(ConsumeValues(r1, Len(values)),
                                      TotalValues(Len(levels), Len(values))),
                TotalValues(Len(levels), Len(values)), NoError, Len(values),
                levels, values)

\* ReadBatch from line 454 on with the comparison of the level counts left out
ReadBatchDecodeUnchecked(r1, useRep, wantDef, levels, reps, values_to_read) ==
    IF r1.cur = NullDecoder
    THEN BatchResult(r1, 0, Abort, 0, levels, <<>>)
    ELSE ReadBatchValues(r1, levels, DecodeValues(r1, values_to_read))

\* ReadBatch from line 454 on, r1 the reader with the levels taken
ReadBatchDecode(r1, useRep, wantDef, levels, reps, values_to_read) ==
    IF useRep /\ wantDef /\ Len(levels) # Len(reps)
    THEN BatchResult(r1, 0, ErrLevelsMismatch, 0, levels, <<>>)
    ELSE IF r1.cur = NullDecoder
    THEN BatchResult(r1, 0, Abort, 0, levels, <<>>)
    ELSE ReadBatchValues(r1, levels, DecodeValues(r1, values_to_read))

\* ReadBatch from line 438 on, levels and reps what the level decoders hand out
ReadBatchLevels(r, batch_size, useDef, useRep, wantDef, levels, reps) ==
    ReadBatchDecode([r EXCEPT !.deflv = Drop(@, Len(levels)),
                              !.replv = Drop(@, Len(reps))],
                    useRep, wantDef, levels, reps,
                    ValuesToRead(useDef, levels, batch_size))

\* ReadBatch from line 431 on, batch_size clamped to the rows left in the page
ReadBatchPage(r, batch_size, useDef, useRep, wantDef) ==
    ReadBatchLevels(r, batch_size, useDef, useRep, wantDef,
                    IF useDef THEN ReadLevels(r.deflv, batch_size) ELSE <<>>,
                    IF useRep THEN ReadLevels(r.replv, batch_size) ELSE <<>>)

\* ReadBatch once its HasNext() has returned h
ReadBatchAfterHasNext(h, n, wantDef, wantRep) ==
    IF h.err # NoError THEN BatchResult(h.r, 0, h.err, 0, <<>>, <<>>)
    ELSE IF ~h.ret THEN BatchResult(h.r, 0, NoError, 0, <<>>, <<>>)
    ELSE ReadBatchPage(h.r, Min(n, h.r.nbuf - h.r.ndec),
                       descr.max_def > 0 /\ wantDef, descr.max_rep > 0 /\ wantRep,
                       wantDef)

\* ColumnReader::ReadBatch(batch_size, def_levels, rep_levels, values, &values_read);
\* wantDef / wantRep: the caller passed a non-null def_levels / rep_levels
ReadBatch(r0, n, wantDef, wantRep) ==
    ReadBatchAfterHasNext(HasNext(r0), n, wantDef, wantRep)

(***************************************************************************)
(* Validity bitmaps.  A bitmap is the sequence of its bits, bit i of the   *)
(* buffer at index i + 1; a buffer of n bytes has 8 * n bits.              *)
(***************************************************************************)
BitsPerByte == 8

ZeroBits(n) == [i \in 1..n |-> 0]

\* the byte at byte_offset, as its 8 bits; beyond the buffer the read is out
\* of bounds and yields the filler
ByteAt(bits, byte_offset) ==
    [k \in 1..BitsPerByte |->
        IF byte_offset * BitsPerByte + k <= Len(bits)
        THEN bits[byte_offset * BitsPerByte + k] ELSE 0]

InBuffer(bits, byte_offset) == (byte_offset + 1) * BitsPerByte <= Len(bits)

\* bitmap_[byte_offset] = byte; a store beyond the buffer is recorded in oob
StoreByte(w, byte) ==
    IF InBuffer(w.bits, w.byte_offset)
    THEN [w EXCEPT !.bits = [i \in 1..Len(w.bits) |->
                     IF (i - 1) \div BitsPerByte = w.byte_offset
                     THEN byte[((i - 1) % BitsPerByte) + 1] ELSE w.bits[i]]]
    ELSE [w EXCEPT !.oob = TRUE]

\* arrow::internal::BitmapWriter(bitmap, start_offset, length)
BitmapWriter(bitmap, start_offset, length) ==
    [bits |-> bitmap, position |-> 0, length |-> length,
     byte_offset |-> start_offset \div BitsPerByte,
     bit |-> start_offset % BitsPerByte,
     current_byte |-> IF length > 0
                      THEN ByteAt(bitmap, start_offset \div BitsPerByte)
                      ELSE ZeroBits(BitsPerByte),
     oob |-> length > 0 /\ ~InBuffer(bitmap, start_offset \div BitsPerByte)]

WriterSet(w) == [w EXCEPT !.current_byte[w.bit + 1] = 1]

WriterClear(w) == [w EXCEPT !.current_byte[w.bit + 1] = 0]

WriterNext(w) ==
    IF w.bit + 1 < BitsPerByte
    THEN [w EXCEPT !.bit = @ + 1, !.position = @ + 1]
    ELSE LET s == StoreByte(w, w.current_byte)
             n == [s EXCEPT !.bit = 0, !.position = @ + 1, !.byte_offset = @ + 1]
         IN  IF n.position < n.length
             THEN [n EXCEPT !.current_byte = ByteAt(n.bits, n.byte_offset),
                            !.oob = @ \/ ~InBuffer(n.bits, n.byte_offset)]
             ELSE n

\* Finish stores the current byte unless the writer stands past the last
\* byte it was given; a writer of length 0 stores nothing
WriterFinish(w) ==
    IF w.length > 0 /\ (w.bit # 0 \/ w.position < w.length)
    THEN StoreByte(w, w.current_byte)
    ELSE w

\* ::arrow::BitUtil::SetBit(valid_bits, i)
SetBit(bits, i) == IF i + 1 <= Len(bits) THEN [bits EXCEPT ![i + 1] = 1] ELSE bits

RECURSIVE SetBits(_, _, _)
SetBits(bits, from, n) ==
    IF n = 0 THEN bits ELSE SetBits(SetBit(bits, from), from + 1, n - 1)

RECURSIVE PopCount(_)
PopCount(bits) == IF bits = <<>> THEN 0 ELSE Head(bits) + PopCount(Tail(bits))

BitmapResult(w, null_count, err) ==
    [bits |-> w.bits, position |-> w.position, null_count |-> null_count,
     oob |-> w.oob, err |-> err]

\* the loop with rows below the maximum left uncounted
RECURSIVE LevelsToBitmapLoopUncounted(_, _, _, _, _)
LevelsToBitmapLoopUncounted(def_levels, i, max_definition_level, w, null_count) ==
    IF i > Len(def_levels)
    THEN BitmapResult(WriterFinish(w), null_count, NoError)
    ELSE IF def_levels[i] = max_definition_level
    THEN LevelsToBitmapLoopUncounted(def_levels, i + 1, max_definition_level,
                                     WriterNext(WriterSet(w)), null_count)
    ELSE IF def_levels[i] < max_definition_level
    THEN LevelsToBitmapLoopUncounted(def_levels, i + 1, max_definition_level,
                                     WriterNext(WriterClear(w)), null_count)
    ELSE BitmapResult(w, null_count, ErrLevelExceedsMax)

\* the loop of _DefinitionLevelsToBitmap(def_levels, levels_length,
\* max_definition_level, values_read, null_count, null_bitmap_ptr,
\* valid_bits_offset), column_reader.cu:749; an exception leaves the
\* writer's current byte unstored
RECURSIVE LevelsToBitmapLoop(_, _, _, _, _)
LevelsToBitmapLoop(def_levels, i, max_definition_level, w, null_count) ==
    IF i > Len(def_levels)
    THEN BitmapResult(WriterFinish(w), null_count, NoError)
    ELSE IF def_levels[i] = max_definition_level
    THEN LevelsToBitmapLoop(def_levels, i + 1, max_definition_level,
                            WriterNext(WriterSet(w)), null_count)
    ELSE IF def_levels[i] < max_definition_level
    THEN LevelsToBitmapLoop(def_levels, i + 1, max_definition_level,
                            WriterNext(WriterClear(w)), null_count + 1)
    ELSE BitmapResult(w, null_count, ErrLevelExceedsMax)

\* the conversion with the writer placed at bit 0 whatever the offset
DefinitionLevelsToBitmapFromZero(def_levels, max_definition_level, null_count, null_bitmap, valid_bits_offset) ==
    LevelsToBitmapLoop(def_levels, 1, max_definition_level,
                       BitmapWriter(null_bitmap, 0, Len(def_levels)), null_count)

DefinitionLevelsToBitmap(def_levels, max_definition_level, null_count, null_bitmap, valid_bits_offset) ==
    LevelsToBitmapLoop(def_levels, 1, max_definition_level,
                       BitmapWriter(null_bitmap, valid_bits_offset, Len(def_levels)),
                       null_count)

\* the loop of the repetition-aware _DefinitionLevelsToBitmap,
\* column_reader.cu:246
RECURSIVE LevelsToBitmapRepLoop(_, _, _, _, _, _)
LevelsToBitmapRepLoop(def_levels, i, max_definition_level, max_repetition_level, w, null_count) ==
    IF i > Len(def_levels)
    THEN BitmapResult(WriterFinish(w), null_count, NoError)
    ELSE IF def_levels[i] = max_definition_level
    THEN LevelsToBitmapRepLoop(def_levels, i + 1, max_definition_level,
                               max_repetition_level, WriterNext(WriterSet(w)),
                               null_count)
    ELSE IF max_repetition_level > 0
    THEN IF def_levels[i] = max_definition_level - 1
         THEN LevelsToBitmapRepLoop(def_levels, i + 1, max_definition_level,
                                    max_repetition_level,
                                    WriterNext(WriterClear(w)), null_count + 1)
         ELSE LevelsToBitmapRepLoop(def_levels, i + 1, max_definition_level,
                                    max_repetition_level, w, null_count)
    ELSE IF def_levels[i] < max_definition_level
    THEN LevelsToBitmapRepLoop(def_levels, i + 1, max_definition_level,
                               max_repetition_level, WriterNext(WriterClear(w)),
                               null_count + 1)
    ELSE BitmapResult(w, null_count, ErrLevelExceedsMax)

\* the conversion with the repetition level ignored: every level below the
\* maximum is a null
DefinitionLevelsToBitmapRepFlat(def_levels, max_definition_level, max_repetition_level, null_count, valid_bits, valid_bits_offset) ==
    DefinitionLevelsToBitmap(def_levels, max_definition_level, null_count, valid_bits,
                             valid_bits_offset)

DefinitionLevelsToBitmapRep(def_levels, max_definition_level, max_repetition_level, null_count, valid_bits, valid_bits_offset) ==
    LevelsToBitmapRepLoop(def_levels, 1, max_definition_level, max_repetition_level,
                          BitmapWriter(valid_bits, valid_bits_offset, Len(def_levels)),
                          null_count)

(***************************************************************************)
(* ReadBatchSpaced.                                                        *)
(***************************************************************************)
Untouched == 0 - 1

HasSpacedValues(d) == IF d.max_rep > 0 THEN ~d.required ELSE d.optional

\* the values laid out over the slots of a batch: slot i takes the next value
\* when bit valid_bits_offset + i is set and stays untouched otherwise
RECURSIVE Spread(_, _, _, _)
Spread(vals, bits, from, n) ==
    IF n = 0 THEN <<>>
    ELSE IF from + 1 <= Len(bits) /\ bits[from + 1] = 1 /\ vals # <<>>
    THEN <<Head(vals)>> \o Spread(Tail(vals), bits, from + 1, n - 1)
    ELSE <<Untouched>> \o Spread(vals, bits, from + 1, n - 1)

SpacedResult(r, ret, err, levels_read, values_read, nulls_count, levels, values, bits) ==
    [r |-> r, ret |-> ret, err |-> err, levels_read |-> levels_read,
     values_read |-> values_read, nulls_count |-> nulls_count,
     def_levels |-> levels, values |-> values, valid_bits |-> bits]

\* the dense path marking the values from bit 0 of valid_bits
SpacedDenseFromZero(r1, levels, values, valid_bits, valid_bits_offset) ==
    SpacedResult(ConsumeBufferedValues(ConsumeValues(r1, Len(values)), Len(levels)),
                 Len(values), NoError, Len(levels), Len(values), 0, levels, values,
                 SetBits(valid_bits, 0, Len(values)))

\* no spaced values (lines 357-377 of column_reader.cu): the values are read densely
SpacedDense(r1, levels, values, valid_bits, valid_bits_offset) ==
    SpacedResult(ConsumeBufferedValues(ConsumeValues(r1, Len(values)), Len(levels)),
                 Len(values), NoError, Len(levels), Len(values), 0, levels, values,
                 SetBits(valid_bits, valid_bits_offset, Len(values)))

\* spaced values (lines 392-398): dense holds the values the decoder gave
SpacedSparseValues(r1, levels, b, dense, valid_bits_offset) ==
    SpacedResult(ConsumeBufferedValues(ConsumeValues(r1, Len(dense)), Len(levels)),
                 b.position, NoError, Len(levels), b.position, b.null_count, levels,
                 Spread(dense, b.bits, valid_bits_offset, b.position), b.bits)

\* spaced values (lines 378-398): b the bitmap built from the levels
SpacedSparse(r1, levels, b, valid_bits_offset) ==
    IF b.err # NoError
    THEN SpacedResult(r1, 0, b.err, 0, 0, 0, levels, <<>>, b.bits)
    ELSE IF r1.cur = NullDecoder
            \/ (r1.cur = "RLE_DICTIONARY" /\ ~NDEBUG)   \* assert(false)
    THEN SpacedResult(r1, 0, Abort, 0, b.position, 0, levels, <<>>, b.bits)
    ELSE SpacedSparseValues(r1, levels, b,
                            DecodeValues(r1, b.position - b.null_count),
                            valid_bits_offset)

\* lines 345-398, r1 the reader with the levels taken
SpacedWithLevels(r1, levels, reps, valid_bits, valid_bits_offset) ==
    IF descr.max_rep > 0 /\ Len(levels) # Len(reps)
    THEN SpacedResult(r1, 0, ErrLevelsMismatch, 0, 0, 0, levels, <<>>, valid_bits)
    ELSE IF ~HasSpacedValues(descr)
    THEN IF r1.cur = NullDecoder
         THEN SpacedResult(r1, 0, Abort, 0, 0, 0, levels, <<>>, valid_bits)
         ELSE SpacedDense(r1, levels,
                          DecodeValues(r1, CountEq(levels, descr.max_def)),
                          valid_bits, valid_bits_offset)
    ELSE SpacedSparse(r1, levels,
                      DefinitionLevelsToBitmapRep(levels, descr.max_def, descr.max_rep,
                                                  0, valid_bits, valid_bits_offset),
                      valid_bits_offset)

SpacedLevels(r, levels, reps, valid_bits, valid_bits_offset) ==
    SpacedWithLevels([r EXCEPT !.deflv = Drop(@, Len(levels)),
                               !.replv = Drop(@, Len(reps))],
                     levels, reps, valid_bits, valid_bits_offset)

\* no levels are encoded (lines 400-410)
SpacedNoLevels(r, values, valid_bits, valid_bits_offset) ==
    SpacedResult(ConsumeBufferedValues(ConsumeValues(r, Len(values)), Len(values)),
                 Len(values), NoError, Len(values), 0, 0, <<>>, values,
                 SetBits(valid_bits, valid_bits_offset, Len(values)))

SpacedPage(r, batch_size, valid_bits, valid_bits_offset) ==
    IF descr.max_def > 0
    THEN SpacedLevels(r, ReadLevels(r.deflv, batch_size),
                      IF descr.max_rep > 0 THEN ReadLevels(r.replv, batch_size)
                      ELSE <<>>,
                      valid_bits, valid_bits_offset)
    ELSE IF r.cur = NullDecoder
    THEN SpacedResult(r, 0, Abort, 0, 0, 0, <<>>, <<>>, valid_bits)
    ELSE SpacedNoLevels(r, DecodeValues(r, batch_size), valid_bits, valid_bits_offset)

SpacedAfterHasNext(h, n, valid_bits, valid_bits_offset) ==
    IF h.err # NoError
    THEN SpacedResult(h.r, 0, h.err, 0, 0, 0, <<>>, <<>>, valid_bits)
    ELSE IF ~h.ret
    THEN SpacedResult(h.r, 0, NoError, 0, 0, 0, <<>>, <<>>, valid_bits)
    ELSE SpacedPage(h.r, Min(n, h.r.nbuf - h.r.ndec), valid_bits, valid_bits_offset)

\* ColumnReader::ReadBatchSpaced(batch_size, definition_levels, repetition_levels,
\* values, valid_bits, valid_bits_offset, &levels_read, &values_read, &nulls_count)
ReadBatchSpaced(r0, n, valid_bits, valid_bits_offset) ==
    SpacedAfterHasNext(HasNext(r0), n, valid_bits, valid_bits_offset)

(***************************************************************************)
(* ToGdfColumn (column_reader.cu:840).                                     *)
(***************************************************************************)
BatchRows == 8

\* what an uninitialised int16_t buffer may hold
GarbageLevels == {0 - 1, 0, 1}

get_number_of_bytes_for_valid(column_size) ==
    (column_size + BitsPerByte - 1) \div BitsPerByte

\* rows 1..i of levels that are at max_definition_level
ValidBefore(levels, max_definition_level, i) ==
    CountEq(Take(levels, i), max_definition_level)

\* the scatter left out: the values stay where they were decoded
CompactKeepsDense(data_in, data_out, definition_levels, max_definition_level, batch_size) ==
    data_out

\* compact_to_sparse_for_nulls: dense value k goes to the k-th row whose
\* level is the maximum; the other slots keep what they held
compact_to_sparse_for_nulls(data_in, data_out, definition_levels, max_definition_level, batch_size) ==
    [i \in DOMAIN data_out |->
        IF i <= batch_size /\ definition_levels[i] = max_definition_level
        THEN data_in[ValidBefore(definition_levels, max_definition_level, i)]
        ELSE data_out[i]]

GdfState(rows_read_total, null_count, values_read_counter, levels, values, bits, oob) ==
    [rows_read_total |-> rows_read_total, null_count |-> null_count,
     values_read_counter |-> values_read_counter, definition_levels |-> levels,
     values |-> values, h_valid_bits |-> bits, oob |-> oob]

\* the loop  while (this->HasNext()) { ReadBatch; _DefinitionLevelsToBitmap }
RECURSIVE ToGdfColumnLoop(_, _, _)

\* lines 875-877: b the batch read, m the bitmap built, g1 the locals after it
GdfAfterBitmap(b, reader_before, m, g1, values_to_read) ==
    IF m.err # NoError THEN [r |-> b.r, err |-> m.err, g |-> g1]
    ELSE IF b.ret = 0 /\ b.r = reader_before
    THEN [r |-> b.r, err |-> Diverges, g |-> g1]
    ELSE ToGdfColumnLoop(b.r, values_to_read, g1)

GdfBitmap(b, reader_before, g, levels, m, values_to_read) ==
    GdfAfterBitmap(b, reader_before, m,
                   GdfState(g.rows_read_total + b.ret, m.null_count,
                            g.values_read_counter + b.values_read, levels,
                            WriteAt(g.values, g.values_read_counter, b.values),
                            m.bits, g.oob \/ m.oob),
                   values_to_read)

\* lines 867-873: the bitmap of the rows just read, from the level buffer
GdfAfterBatch(b, reader_before, g, levels, values_to_read) ==
    IF b.err # NoError
    THEN [r |-> b.r, err |-> b.err, g |-> [g EXCEPT !.definition_levels = levels]]
    ELSE GdfBitmap(b, reader_before, g, levels,
                   DefinitionLevelsToBitmap(
                       SubSeq(levels, g.rows_read_total + 1, g.rows_read_total + b.ret),
                       descr.max_def, g.null_count, g.h_valid_bits, g.rows_read_total),
                   values_to_read)

\* lines 860-864: the batch, its levels stored at definition_levels + rows_read_total
GdfBatch(reader_before, b, g, values_to_read) ==
    GdfAfterBatch(b, reader_before, g,
                  WriteAt(g.definition_levels, g.rows_read_total, b.def_levels),
                  values_to_read)

GdfAfterHasNext(h, values_to_read, g) ==
    IF h.err # NoError \/ ~h.ret THEN [r |-> h.r, err |-> h.err, g |-> g]
    ELSE GdfBatch(h.r, ReadBatch(h.r, values_to_read, TRUE, FALSE), g, values_to_read)

ToGdfColumnLoop(r, values_to_read, g) == GdfAfterHasNext(HasNext(r), values_to_read, g)

\* lines 878-892: the mask copied out, the values scattered, the rows returned
GdfReturn(r, err, g) ==
    [r |-> r, err |-> err,
     ret |-> IF err = NoError THEN g.rows_read_total ELSE 0,
     rows |-> g.rows_read_total, null_count |-> g.null_count,
     values_read_counter |-> g.values_read_counter,
     definition_levels |-> Take(g.definition_levels, g.rows_read_total),
     valid |-> g.h_valid_bits, oob |-> g.oob,
     data |-> IF err = NoError /\ g.rows_read_total # g.values_read_counter
              THEN compact_to_sparse_for_nulls(Take(g.values, g.rows_read_total),
                       g.values, g.definition_levels, descr.max_def,
                       g.rows_read_total)
              ELSE g.values]

GdfLoopResult(l) == GdfReturn(l.r, l.err, l.g)

\* ColumnReader::ToGdfColumn(definition_levels, repetition_levels, column);
\* capacity: the rows the caller's buffers were allocated for; level, bit:
\* what the uninitialised level buffer and mask buffer hold
ToGdfColumn(r0, capacity, level, bit) ==
    GdfLoopResult(
        ToGdfColumnLoop(r0, Min(BatchRows, r0.nbuf - r0.ndec),
            GdfState(0, 0, 0, [i \in 1..capacity |-> level],
                     [i \in 1..capacity |-> Untouched],
                     [i \in 1..(get_number_of_bytes_for_valid(r0.nbuf) * BitsPerByte)
                        |-> bit],
                     FALSE)))

(***************************************************************************)
(* The reader's operations as actions.                                     *)
(***************************************************************************)
NoCall ==
    [op |-> "none", n |-> 0, wantDef |-> FALSE,
     pre |-> [pos |-> 0, nbuf |-> 0, ndec |-> 0, cur |-> NullDecoder],
     ret |-> 0, err |-> NoError, values_read |-> 0, levels_read |-> 0,
     nulls_count |-> 0, def_levels |-> <<>>, values |-> <<>>, valid_bits |-> <<>>,
     offset |-> 0, avail |-> 0, dec0 |-> 0, avail_values |-> 0,
     avail_levels |-> 0, gdf |-> <<>>, wantRep |-> FALSE, avail_rep_levels |-> 0]

\* what a read finds once its HasNext() has run: rows left in the page, the
\* rows already decoded, and the values left in the current decoder
Avail(h) == IF h.err = NoError /\ h.ret THEN h.r.nbuf - h.r.ndec ELSE 0

AvailValues(h) == IF h.r.cur = NullDecoder THEN 0 ELSE Len(h.r.data[h.r.cur])

AvailLevels(h) == Len(h.r.deflv)

AvailRepLevels(h) == Len(h.r.replv)

Pre(r) == [pos |-> r.pos, nbuf |-> r.nbuf, ndec |-> r.ndec, cur |-> r.cur]

SetReaderFields(r, err) ==
    /\ pager_pos' = r.pos
    /\ num_buffered_values_' = r.nbuf
    /\ num_decoded_values_' = r.ndec
    /\ decoders_' = r.decoders
    /\ current_decoder_' = r.cur
    /\ dictionary' = r.dict
    /\ decoder_data' = r.data
    /\ definition_levels_left' = r.deflv
    /\ repetition_levels_left' = r.replv
    /\ aborted' = (err \in {Abort, Diverges})
    /\ UNCHANGED <<NDEBUG, pages, descr>>
    /\ UNCHANGED <<rleVars, bmVars, fileVars, apiVars, binVars>>

SetReader(r, err) == SetReaderFields(r, err) /\ UNCHANGED twoVars

ReaderInit ==
    /\ NDEBUG \in BOOLEAN
    /\ descr \in Descriptors
    /\ pages \in SeqsUpTo(PagePool(descr), MaxPages)
    /\ pager_pos = 0
    /\ num_buffered_values_ = 0
    /\ num_decoded_values_ = 0
    /\ decoders_ = {}
    /\ current_decoder_ = NullDecoder
    /\ dictionary = <<>>
    /\ decoder_data = [k \in DecoderKeys |-> <<>>]
    /\ definition_levels_left = <<>>
    /\ repetition_levels_left = <<>>
    /\ aborted = FALSE
    /\ call = NoCall

DoHasNext ==
    /\ ~aborted
    /\ \E o \in {HasNext(Reader)} :
           /\ SetReader(o.r, o.err)
           /\ call' = [NoCall EXCEPT !.op = "HasNext", !.pre = Pre(Reader),
                                      !.ret = o.ret, !.err = o.err]

DoReadNewPage ==
    /\ ~aborted
    /\ \E o \in {ReadNewPage(Reader)} :
           /\ SetReader(o.r, o.err)
           /\ call' = [NoCall EXCEPT !.op = "ReadNewPage", !.pre = Pre(Reader),
                                      !.ret = o.ret, !.err = o.err]

DoReadBatch ==
    /\ ~aborted
    /\ \E n \in 0..MaxBatch, wantDef \in {TRUE} \cup {descr.max_def = 0},
          wantRep \in {FALSE} \cup {descr.max_rep > 0} :
         \E o \in {ReadBatch(Reader, n, wantDef, wantRep)}, h \in {HasNext(Reader)} :
             /\ SetReader(o.r, o.err)
             /\ call' = [NoCall EXCEPT !.op = "ReadBatch", !.n = n,
                            !.wantDef = wantDef, !.pre = Pre(Reader),
                            !.wantRep = wantRep,
                            !.avail_rep_levels = AvailRepLevels(h),
                            !.avail = Avail(h),
                            !.dec0 = h.r.ndec,
                            !.avail_values = AvailValues(h),
                            !.avail_levels = AvailLevels(h),
                            !.ret = o.ret, !.err = o.err,
                            !.values_read = o.values_read,
                            !.levels_read = Len(o.def_levels),
                            !.def_levels = o.def_levels, !.values = o.values]

DoReadBatchSpaced ==
    /\ ~aborted
    /\ \E n \in 0..MaxBatch, off \in 0..1 :
         \E o \in {ReadBatchSpaced(Reader, n, ZeroBits(BitsPerByte), off)},
            h \in {HasNext(Reader)} :
             /\ SetReader(o.r, o.err)
             /\ call' = [NoCall EXCEPT !.op = "ReadBatchSpaced", !.n = n,
                            !.wantDef = TRUE, !.pre = Pre(Reader), !.offset = off,
                            !.wantRep = descr.max_rep > 0,
                            !.avail_rep_levels = AvailRepLevels(h),
                            !.avail = Avail(h),
                            !.dec0 = h.r.ndec,
                            !.avail_values = AvailValues(h),
                            !.avail_levels = AvailLevels(h),
                            !.ret = o.ret, !.err = o.err,
                            !.values_read = o.values_read,
                            !.levels_read = o.levels_read,
                            !.nulls_count = o.nulls_count,
                            !.def_levels = o.def_levels, !.values = o.values,
                            !.valid_bits = o.valid_bits]

\* the rows of the row group, for which _ReadFile allocates the level
\* buffers and the column
RECURSIVE NumRows(_)
NumRows(ps) ==
    IF ps = <<>> THEN 0
    ELSE (IF ps[1].type = "DATA_PAGE" THEN ps[1].num_values ELSE 0) + NumRows(Drop(ps, 1))

DoToGdfColumn ==
    /\ ~aborted
    /\ \E level \in GarbageLevels, bit \in {0, 1} :
         \E o \in {ToGdfColumn(Reader, NumRows(pages), level, bit)} :
             /\ SetReader(o.r, o.err)
             /\ call' = [NoCall EXCEPT !.op = "ToGdfColumn", !.pre = Pre(Reader),
                            !.ret = o.ret, !.err = o.err,
                            !.gdf = [rows |-> o.rows, null_count |-> o.null_count,
                                     values_read_counter |-> o.values_read_counter,
                                     definition_levels |-> o.definition_levels,
                                     valid |-> o.valid, oob |-> o.oob,
                                     data |-> o.data]]

ReaderNext == DoHasNext \/ DoReadNewPage \/ DoReadBatch \/ DoReadBatchSpaced

(***************************************************************************)
(* The hybrid RLE decoder (rle_decoder.h) over a byte buffer.              *)
(* The bit reader is kept as one bit position into the buffer.             *)
(***************************************************************************)
\* uint32_t and int32_t values are kept as the int32_t with the same 32
\* bits: an unsigned count is positive when it is not zero, and
\* static_cast<int> is the identity

\* x * 8 in 32 bits
TimesEight(x) ==
    LET y == x % 2^29
    IN  IF y >= 2^28 THEN (y - 2^29) * 8 ELSE y * 8

MAX_VLQ_BYTE_LEN == 5

\* v | (b7 << shift) in 32 bits, for a 7-bit b7 and v below 2^shift
ShiftIn(v, b7, shift) ==
    IF shift < 28 THEN v + b7 * 2^shift
    ELSE LET low == v + (b7 % 8) * 2^28
         IN  IF (b7 \div 8) % 2 = 1 THEN (low - 2^30) - 2^30 ELSE low

CeilDiv(a, b) == (a + b - 1) \div b

BitAt(buf, p) == (buf[(p \div BitsPerByte) + 1] \div 2^(p % BitsPerByte)) % 2

RECURSIVE ReadBits(_, _, _)
ReadBits(buf, p, w) ==
    IF w = 0 THEN 0 ELSE BitAt(buf, p) + 2 * ReadBits(buf, p + 1, w - 1)

\* BitReader::GetBatch(num_bits, v, batch_size): only the values the
\* remaining bits hold are read
BitReaderGetBatch(buf, pos, num_bits, batch_size) ==
    LET remaining_bits == Len(buf) * BitsPerByte - pos
        n == IF remaining_bits < num_bits * batch_size
             THEN remaining_bits \div num_bits ELSE batch_size
    IN  [n |-> n,
         vals |-> [i \in 1..n |-> ReadBits(buf, pos + (i - 1) * num_bits, num_bits)],
         pos |-> pos + n * num_bits]

RECURSIVE LittleEndian(_, _, _)
LittleEndian(buf, start, num_bytes) ==
    IF num_bytes = 0 THEN 0
    ELSE buf[start + 1] + 256 * LittleEndian(buf, start + 1, num_bytes - 1)

\* BitReader::GetAligned(num_bytes, v): skips to the next byte boundary
GetAligned(buf, pos, num_bytes) ==
    LET start == CeilDiv(pos, BitsPerByte)
    IN  IF start + num_bytes > Len(buf)
        THEN [ok |-> FALSE, v |-> 0, pos |-> pos]
        ELSE [ok |-> TRUE, v |-> LittleEndian(buf, start, num_bytes),
              pos |-> (start + num_bytes) * BitsPerByte]

\* BitReader::GetVlqInt(v): 7 bits a byte, low bits first, until a byte
\* without its high bit; the bytes read before a failure stay consumed
RECURSIVE GetVlqIntLoop(_, _, _, _)
GetVlqIntLoop(buf, pos, v, shift) ==
    LET b == GetAligned(buf, pos, 1)
    IN  IF ~b.ok THEN [ok |-> FALSE, v |-> v, pos |-> pos, err |-> NoError]
        ELSE IF shift >= 7 * MAX_VLQ_BYTE_LEN
        THEN [ok |-> FALSE, v |-> v, pos |-> b.pos,
              err |-> IF NDEBUG THEN Undefined ELSE Abort]
        ELSE LET v1 == ShiftIn(v, b.v % 128, shift)
             IN  IF b.v >= 128
                 THEN GetVlqIntLoop(buf, b.pos, v1, shift + 7)
                 ELSE [ok |-> TRUE, v |-> v1, pos |-> b.pos, err |-> NoError]

GetVlqInt(buf, pos) == GetVlqIntLoop(buf, pos, 0, 0)

\* the decoder's fields as one record
Rle ==
    [pos |-> bit_pos, bit_width |-> bit_width_, current_value |-> current_value_,
     repeat_count |-> repeat_count_, literal_count |-> literal_count_]

\* RleDecoder::NextCounts<T>(): the run header, and a repeated run's value
NextCountsBothRuns(buf, st) ==
    LET g == GetVlqInt(buf, st.pos)
    IN  [ok |-> g.ok, err |-> g.err,
         st |-> [st EXCEPT !.pos = g.pos,
                           !.literal_count = IF g.ok THEN TimesEight(g.v \div 2) ELSE @,
                           !.repeat_count = IF g.ok THEN g.v \div 2 ELSE @]]

\* a literal header taken as a count of values, not of groups of eight
NextCountsUnscaled(buf, st) ==
    LET g == GetVlqInt(buf, st.pos)
    IN  IF ~g.ok THEN [ok |-> FALSE, err |-> g.err, st |-> [st EXCEPT !.pos = g.pos]]
        ELSE IF g.v % 2 = 1
        THEN [ok |-> TRUE, err |-> NoError,
              st |-> [st EXCEPT !.pos = g.pos, !.literal_count = g.v \div 2]]
        ELSE LET a == GetAligned(buf, g.pos, CeilDiv(st.bit_width, BitsPerByte))
             IN  [ok |-> TRUE, err |-> IF ~a.ok /\ ~NDEBUG THEN Abort ELSE NoError,
                  st |-> [st EXCEPT !.pos = a.pos,
                                    !.repeat_count = g.v \div 2,
                                    !.current_value = IF a.ok THEN a.v ELSE @]]

NextCounts(buf, st) ==
    LET g == GetVlqInt(buf, st.pos)
    IN  IF ~g.ok THEN [ok |-> FALSE, err |-> g.err, st |-> [st EXCEPT !.pos = g.pos]]
        ELSE IF g.v % 2 = 1
        THEN [ok |-> TRUE, err |-> NoError,
              st |-> [st EXCEPT !.pos = g.pos,
                                !.literal_count = TimesEight(g.v \div 2)]]
        ELSE LET a == GetAligned(buf, g.pos, CeilDiv(st.bit_width, BitsPerByte))
             IN  [ok |-> TRUE, err |-> IF ~a.ok /\ ~NDEBUG THEN Abort ELSE NoError,
                  st |-> [st EXCEPT !.pos = a.pos,
                                    !.repeat_count = g.v \div 2,
                                    !.current_value = IF a.ok THEN a.v ELSE @]]

Fresh(n) == [i \in 1..n |-> Untouched]

\* hdr: every run header read so far was read with both counts at zero
RleResult(st, ret, out, err, hdr) ==
    [st |-> st, ret |-> ret, out |-> out, err |-> err, hdr |-> hdr]

\* RleDecoder::GetBatch<T>(values, batch_size)
RECURSIVE GetBatchLoop(_, _, _, _, _, _)
GetBatchLoop(buf, st, batch_size, values_read, out, hdr) ==
    IF values_read >= batch_size THEN RleResult(st, values_read, out, NoError, hdr)
    ELSE IF st.repeat_count # 0
    THEN LET repeat_batch == Min(batch_size - values_read, st.repeat_count)
         IN  IF repeat_batch < 0
             THEN RleResult(st, values_read + repeat_batch, out, Undefined, hdr)
             ELSE GetBatchLoop(buf,
                      [st EXCEPT !.repeat_count = @ - repeat_batch],
                      batch_size, values_read + repeat_batch,
                      Fill(out, values_read, repeat_batch, st.current_value), hdr)
    ELSE IF st.literal_count # 0
    THEN LET literal_batch == Min(batch_size - values_read, st.literal_count)
             g == BitReaderGetBatch(buf, st.pos, st.bit_width, Max(literal_batch, 0))
         IN  IF literal_batch < 0
             THEN RleResult(st, values_read + literal_batch, out, Undefined, hdr)
             ELSE IF g.n # literal_batch /\ ~NDEBUG
             THEN RleResult(st, values_read, out, Abort, hdr)
             ELSE GetBatchLoop(buf,
                      [st EXCEPT !.pos = g.pos,
                                 !.literal_count = @ - literal_batch],
                      batch_size, values_read + literal_batch,
                      WriteAt(out, values_read, g.vals), hdr)
    ELSE LET nc == NextCounts(buf, st)
             h == hdr /\ st.repeat_count = 0 /\ st.literal_count = 0
         IN  IF nc.err # NoError THEN RleResult(nc.st, values_read, out, nc.err, h)
             ELSE IF ~nc.ok THEN RleResult(nc.st, values_read, out, NoError, h)
             ELSE GetBatchLoop(buf, nc.st, batch_size, values_read, out, h)

GetBatch(buf, st, batch_size) ==
    GetBatchLoop(buf, st, batch_size, 0, Fresh(batch_size), TRUE)

\* dictionary[index]; outside the dictionary the read is unspecified
DictAt(dict, index) ==
    IF 0 <= index /\ index < Len(dict) THEN dict[index + 1] ELSE Untouched

IndexBufferSize == 1024

\* BitReader::SetGpuBatchMetadata: records where the packed indices of a
\* literal run start and moves the bit reader past them
SetGpuBatchMetadata(buf, pos, num_bits, batch_size) ==
    BitReaderGetBatch(buf, pos, num_bits, batch_size)

\* decode_using_gpu: every recorded run is resolved through the dictionary
\* into the output positions it was recorded for
RECURSIVE decode_using_gpu(_, _, _)
decode_using_gpu(dict, runs, out) ==
    IF runs = <<>> THEN out
    ELSE LET r == Head(runs)
             o == IF r.isRle
                  THEN Fill(out, r.at, r.n, DictAt(dict, r.value))
                  ELSE WriteAt(out, r.at, [i \in 1..Len(r.indices) |-> DictAt(dict, r.indices[i])])
         IN  decode_using_gpu(dict, Tail(runs), o)

\* RleDecoder::GetBatchWithDict<T>(dictionary, num_dictionary_values, values, batch_size)
RECURSIVE GetBatchWithDictLoop(_, _, _, _, _, _, _)
GetBatchWithDictLoop(buf, st, dict, batch_size, values_read, runs, hdr) ==
    IF values_read >= batch_size
    THEN RleResult(st, values_read, decode_using_gpu(dict, runs, Fresh(batch_size)),
                   NoError, hdr)
    ELSE IF st.repeat_count # 0
    THEN LET repeat_batch == Min(batch_size - values_read, st.repeat_count)
         IN  IF repeat_batch < 0
             THEN RleResult(st, values_read + repeat_batch, Fresh(batch_size), Undefined, hdr)
             ELSE GetBatchWithDictLoop(buf,
                      [st EXCEPT !.repeat_count = @ - repeat_batch],
                      dict, batch_size, values_read + repeat_batch,
                      Append(runs, [isRle |-> TRUE, n |-> repeat_batch, at |-> values_read,
                                    value |-> st.current_value, indices |-> <<>>]), hdr)
    ELSE IF st.literal_count # 0
    THEN LET literal_batch == Min(Min(batch_size - values_read, st.literal_count),
                                  IndexBufferSize)
             g == SetGpuBatchMetadata(buf, st.pos, st.bit_width, Max(literal_batch, 0))
         IN  IF literal_batch < 0
             THEN RleResult(st, values_read + literal_batch, Fresh(batch_size), Undefined, hdr)
             ELSE GetBatchWithDictLoop(buf,
                      [st EXCEPT !.pos = g.pos,
                                 !.literal_count = @ - literal_batch],
                      dict, batch_size, values_read + literal_batch,
                      Append(runs, [isRle |-> FALSE, n |-> literal_batch, at |-> values_read,
                                    value |-> 0, indices |-> g.vals]), hdr)
    ELSE LET nc == NextCounts(buf, st)
             h == hdr /\ st.repeat_count = 0 /\ st.literal_count = 0
         IN  IF nc.err # NoError THEN RleResult(nc.st, values_read, Fresh(batch_size), nc.err, h)
             ELSE IF ~nc.ok THEN RleResult(nc.st, values_read, Fresh(batch_size), NoError, h)
             ELSE GetBatchWithDictLoop(buf, nc.st, dict, batch_size, values_read, runs, h)

GetBatchWithDict(buf, st, dict, batch_size) ==
    GetBatchWithDictLoop(buf, st, dict, batch_size, 0, <<>>, TRUE)

\* indices[k] of the local index buffer; an entry the bit reader did not
\* fill is unspecified
IndexAt(indices, k) == IF k < Len(indices) THEN indices[k + 1] ELSE Untouched

\* the inner loop of a repeated run: the run is stretched over the null slots
RECURSIVE SpacedRepeatLoop(_, _, _, _, _, _)
SpacedRepeatLoop(valid, vp, repeat_count, repeat_batch, remaining_nulls, room) ==
    IF repeat_count # 0 /\ repeat_batch < room
    THEN IF vp <= Len(valid) /\ valid[vp] = 1
         THEN SpacedRepeatLoop(valid, vp + 1, repeat_count - 1, repeat_batch + 1,
                               remaining_nulls, room)
         ELSE SpacedRepeatLoop(valid, vp + 1, repeat_count, repeat_batch + 1,
                               remaining_nulls - 1, room)
    ELSE [repeat_count |-> repeat_count, repeat_batch |-> repeat_batch,
          remaining_nulls |-> remaining_nulls, vp |-> vp]

\* the inner loop of a literal run: one decoded index per valid slot
RECURSIVE SpacedLiteralLoop(_, _, _, _, _, _, _, _, _)
SpacedLiteralLoop(valid, vp, dict, indices, values_read, literal_batch, literals_read, skipped, out) ==
    IF literals_read >= literal_batch
    THEN [undefined |-> FALSE, skipped |-> skipped, vp |-> vp, out |-> out]
    ELSE IF vp > Len(valid)
    THEN [undefined |-> TRUE, skipped |-> skipped, vp |-> vp, out |-> out]
    ELSE IF valid[vp] = 1
    THEN SpacedLiteralLoop(valid, vp + 1, dict, indices, values_read, literal_batch,
             literals_read + 1, skipped,
             WriteAt(out, values_read + literals_read + skipped,
                     <<DictAt(dict, IndexAt(indices, literals_read))>>))
    ELSE SpacedLiteralLoop(valid, vp + 1, dict, indices, values_read, literal_batch,
             literals_read, skipped + 1, out)

RECURSIVE GetBatchWithDictSpacedLoop(_, _, _, _, _, _, _, _, _, _)
GetBatchWithDictSpacedLoop(buf, st, dict, valid, batch_size, values_read, remaining_nulls, vp, out, hdr) ==
    IF values_read >= batch_size THEN RleResult(st, values_read, out, NoError, hdr)
    ELSE IF vp > Len(valid) \/ values_read < 0
    THEN RleResult(st, values_read, out, Undefined, hdr)
    ELSE IF valid[vp] = 1
    THEN LET need == st.repeat_count = 0 /\ st.literal_count = 0
             nc == IF need THEN NextCounts(buf, st)
                   ELSE [ok |-> TRUE, err |-> NoError, st |-> st]
             s1 == nc.st
         IN  IF nc.err # NoError THEN RleResult(s1, values_read, out, nc.err, hdr)
             ELSE IF ~nc.ok THEN RleResult(s1, values_read, out, NoError, hdr)
             ELSE IF s1.repeat_count # 0
             THEN LET l == SpacedRepeatLoop(valid, vp + 1, s1.repeat_count - 1, 1,
                                            remaining_nulls, batch_size - values_read)
                  IN  GetBatchWithDictSpacedLoop(buf,
                          [s1 EXCEPT !.repeat_count = l.repeat_count],
                          dict, valid, batch_size, values_read + l.repeat_batch,
                          l.remaining_nulls, l.vp,
                          Fill(out, values_read, l.repeat_batch,
                               DictAt(dict, s1.current_value)), hdr)
             ELSE IF s1.literal_count # 0
             THEN LET literal_batch ==
                          Min(Min(batch_size - values_read - remaining_nulls,
                                  s1.literal_count), IndexBufferSize)
                      g == BitReaderGetBatch(buf, s1.pos, s1.bit_width,
                                             Max(literal_batch, 0))
                      l == SpacedLiteralLoop(valid, vp + 1, dict, g.vals, values_read,
                               literal_batch, 1, 0,
                               WriteAt(out, values_read,
                                       <<DictAt(dict, IndexAt(g.vals, 0))>>))
                  IN  IF g.n # literal_batch /\ ~NDEBUG
                      THEN RleResult(s1, values_read, out, Abort, hdr)
                      ELSE IF l.undefined
                      THEN RleResult(s1, values_read, l.out, Undefined, hdr)
                      ELSE GetBatchWithDictSpacedLoop(buf,
                               [s1 EXCEPT !.pos = g.pos,
                                          !.literal_count = @ - literal_batch],
                               dict, valid, batch_size,
                               values_read + literal_batch + l.skipped,
                               remaining_nulls - l.skipped, l.vp, l.out, hdr)
             ELSE GetBatchWithDictSpacedLoop(buf, s1, dict, valid, batch_size,
                      values_read, remaining_nulls, vp + 1, out, hdr)
    ELSE GetBatchWithDictSpacedLoop(buf, st, dict, valid, batch_size, values_read + 1,
             remaining_nulls - 1, vp + 1, out, hdr)

\* RleDecoder::GetBatchWithDictSpaced<T>(dictionary, values, batch_size,
\* null_count, valid_bits, valid_bits_offset): valid holds the batch_size
\* bits of valid_bits from valid_bits_offset on
GetBatchWithDictSpaced(buf, st, dict, batch_size, null_count, valid) ==
    IF ~NDEBUG THEN RleResult(st, 0, Fresh(batch_size), Abort, TRUE)
    ELSE GetBatchWithDictSpacedLoop(buf, st, dict, valid, batch_size, 0, null_count, 1,
                                    Fresh(batch_size), TRUE)

(***************************************************************************)
(* The reference encoder of the hybrid format, and the streams the decoder *)
(* is run on.                                                              *)
(***************************************************************************)
MaxRuns == 2
MaxCut == 1
MaxRleBatch == 3

BitWidths == {1, 3}

RECURSIVE VlqBytes(_)
VlqBytes(v) == IF v < 128 THEN <<v>> ELSE <<(v % 128) + 128>> \o VlqBytes(v \div 128)

RECURSIVE FixedBytes(_, _)
FixedBytes(v, num_bytes) ==
    IF num_bytes = 0 THEN <<>> ELSE <<v % 256>> \o FixedBytes(v \div 256, num_bytes - 1)

\* bit k (from 0) of the packed form of vals, each value bw bits, low bit first
PackedBit(vals, bw, k) == (vals[(k \div bw) + 1] \div 2^(k % bw)) % 2

RECURSIVE PackedByte(_, _, _, _)
PackedByte(vals, bw, b, k) ==
    IF k = BitsPerByte THEN 0
    ELSE PackedBit(vals, bw, b * BitsPerByte + k) * 2^k + PackedByte(vals, bw, b, k + 1)

PackBits(vals, bw) ==
    [b \in 1..((Len(vals) * bw) \div BitsPerByte) |-> PackedByte(vals, bw, b - 1, 0)]

PadToGroups(vals) ==
    vals \o [i \in 1..((BitsPerByte - (Len(vals) % BitsPerByte)) % BitsPerByte) |-> 0]

RepeatedRun(count, value) == [literal |-> FALSE, values |-> [i \in 1..count |-> value]]

LiteralRun(values) == [literal |-> TRUE, values |-> values]

EncodeRun(run, bw) ==
    IF run.literal
    THEN VlqBytes((Len(PadToGroups(run.values)) \div BitsPerByte) * 2 + 1)
         \o PackBits(PadToGroups(run.values), bw)
    ELSE VlqBytes(Len(run.values) * 2)
         \o FixedBytes(run.values[1], CeilDiv(bw, BitsPerByte))

RECURSIVE Encode(_, _)
Encode(runs, bw) ==
    IF runs = <<>> THEN <<>> ELSE EncodeRun(Head(runs), bw) \o Encode(Tail(runs), bw)

RECURSIVE Original(_)
Original(runs) == IF runs = <<>> THEN <<>> ELSE Head(runs).values \o Original(Tail(runs))

RunPool(bw) ==
    { RepeatedRun(c, v) : c \in {1, 3}, v \in {0, 2^bw - 1} }
    \cup { LiteralRun([i \in 1..8 |-> (3 * i) % 2^bw]),
           LiteralRun([i \in 1..3 |-> (i * i + 1) % 2^bw]),
           LiteralRun([i \in 1..9 |-> (5 * i + 1) % 2^bw]) }

\* only the last run of a stream may need padding
RunSeqs(bw) ==
    { s \in SeqsUpTo(RunPool(bw), MaxRuns) :
        \A i \in 1..(Len(s) - 1) :
            s[i].literal => Len(s[i].values) % BitsPerByte = 0 }

RleDictionary(bw) == [i \in 1..(2^bw) |-> 100 + i - 1]

ValidityPatterns(n) == [1..n -> {0, 1}]

NoRleCall ==
    [op |-> "none", n |-> 0, ret |-> 0, out |-> <<>>, err |-> NoError, hdr |-> TRUE,
     taken |-> 0, valid |-> <<>>, pre |-> [repeat_count |-> 0, literal_count |-> 0],
     reset |-> "none"]

\* the state the decoder is in when it is reset
RunState(st) ==
    IF st.repeat_count > 0 THEN "repeated run"
    ELSE IF st.literal_count > 0 THEN "literal run"
    ELSE "between runs"

SetRle(o, op, n, valid, used) ==
    /\ bit_pos' = o.st.pos
    /\ current_value_' = o.st.current_value
    /\ repeat_count_' = o.st.repeat_count
    /\ literal_count_' = o.st.literal_count
    /\ rle_taken' = rle_taken + used
    /\ aborted' = (o.err \in {Abort, Undefined})
    /\ rle_call' = [op |-> op, n |-> n, ret |-> o.ret, out |-> o.out, err |-> o.err,
                    hdr |-> o.hdr, taken |-> rle_taken, valid |-> valid,
                    pre |-> [repeat_count |-> repeat_count_,
                             literal_count |-> literal_count_],
                    reset |-> IF rle_call.op = "Reset" THEN rle_call.reset ELSE "none"]
    /\ UNCHANGED <<rle_buffer, bit_width_, rle_runs, rle_intact, NDEBUG>>
    /\ UNCHANGED <<readerState, bmVars, fileVars, twoVars, apiVars, binVars>>

RleInit ==
    /\ NDEBUG \in BOOLEAN
    /\ bit_width_ \in BitWidths
    /\ rle_runs \in RunSeqs(bit_width_)
    /\ \E cut \in 0..MaxCut :
         /\ cut <= Len(Encode(rle_runs, bit_width_))
         /\ rle_buffer = Take(Encode(rle_runs, bit_width_),
                              Len(Encode(rle_runs, bit_width_)) - cut)
         /\ rle_intact = (cut = 0)
    /\ bit_pos = 0
    /\ current_value_ = 0
    /\ repeat_count_ = 0
    /\ literal_count_ = 0
    /\ rle_taken = 0
    /\ rle_call = NoRleCall
    /\ aborted = FALSE

MaxBitWidth == 64

\* bit widths outside [0, MaxBitWidth]
InvalidBitWidths == {0 - 1, MaxBitWidth + 1}

\* a Reset that rewinds the bit reader and keeps the run in progress
ResetKeepsRun(st, bit_width) ==
    [st |-> [st EXCEPT !.pos = 0, !.bit_width = bit_width], err |-> NoError]

\* RleDecoder::Reset(buffer, buffer_len, bit_width): the two DCHECKs, then
\* bit_reader_.Reset and the four assignments
Reset(st, bit_width) ==
    IF ~NDEBUG /\ (bit_width < 0 \/ bit_width > MaxBitWidth)
    THEN [st |-> st, err |-> Abort]
    ELSE [st |-> [pos |-> 0, bit_width |-> bit_width, current_value |-> 0,
                  repeat_count |-> 0, literal_count |-> 0],
          err |-> NoError]

\* Reset on the same page with its bit width, or with a bit width out of
\* range; what a decoder armed with such a width does next is undefined,
\* and the model stops there
DoReset ==
    /\ ~aborted
    /\ \E bit_width \in {bit_width_} \cup InvalidBitWidths :
       \E o \in {Reset(Rle, bit_width)} :
         /\ bit_pos' = o.st.pos
         /\ bit_width_' = o.st.bit_width
         /\ current_value_' = o.st.current_value
         /\ repeat_count_' = o.st.repeat_count
         /\ literal_count_' = o.st.literal_count
         /\ rle_taken' = IF o.err = NoError THEN 0 ELSE rle_taken
         /\ aborted' = (o.err = Abort \/ bit_width \in InvalidBitWidths)
         /\ rle_call' = [NoRleCall EXCEPT !.op = "Reset", !.n = bit_width,
                                          !.err = o.err,
                                          !.pre = [repeat_count |-> repeat_count_,
                                                   literal_count |-> literal_count_],
                                          !.reset = RunState(Rle)]
    /\ UNCHANGED <<rle_buffer, rle_runs, rle_intact, NDEBUG>>
    /\ UNCHANGED <<readerState, bmVars, fileVars, twoVars, apiVars, binVars>>

DoGetBatch ==
    /\ ~aborted
    /\ \E n \in 0..MaxRleBatch :
         \E o \in {GetBatch(rle_buffer, Rle, n)} :
             SetRle(o, "GetBatch", n, <<>>, o.ret)

DoGetBatchWithDict ==
    /\ ~aborted
    /\ \E n \in 0..MaxRleBatch :
         \E o \in {GetBatchWithDict(rle_buffer, Rle, RleDictionary(bit_width_), n)} :
             SetRle(o, "GetBatchWithDict", n, <<>>, o.ret)

DoGetBatchWithDictSpaced ==
    /\ ~aborted
    /\ \E n \in 0..MaxRleBatch : \E valid \in ValidityPatterns(n) :
         \E o \in {GetBatchWithDictSpaced(rle_buffer, Rle, RleDictionary(bit_width_),
                                          n, CountEq(valid, 0), valid)} :
             SetRle(o, "GetBatchWithDictSpaced", n, valid,
                    CountEq(Take(valid, o.ret), 1))

(***************************************************************************)
(* _DefinitionLevelsToBitmap as a function of its arguments.               *)
(***************************************************************************)
MaxLevels == 6
MaxDefLevel == 2
MaxScatterRows == 3
MaxRepLevels == 4

BitmapOffsets == {0, 3}

NoBitmap == [bits |-> <<>>, position |-> 0, null_count |-> 0, oob |-> FALSE,
             err |-> "pending"]

BmInit ==
    /\ \E levels \in SeqsUpTo(0..MaxDefLevel, MaxLevels),
          max_definition_level \in 1..MaxDefLevel,
          offset \in BitmapOffsets, bit \in {0, 1} :
         bm_in = [def_levels |-> levels, max_definition_level |-> max_definition_level,
                  valid_bits_offset |-> offset,
                  null_bitmap |-> [i \in 1..(2 * BitsPerByte) |-> bit]]
    /\ bm_out = NoBitmap

DoDefinitionLevelsToBitmap ==
    /\ bm_out = NoBitmap
    /\ bm_out' = DefinitionLevelsToBitmap(bm_in.def_levels, bm_in.max_definition_level,
                                          0, bm_in.null_bitmap, bm_in.valid_bits_offset)
    /\ UNCHANGED <<bm_in, readerVars, rleVars, fileVars, twoVars, apiVars, binVars>>

\* both conversions over the same levels: the one ToGdfColumn calls and the
\* repetition-aware one ReadBatchSpaced calls
BmRepInit ==
    /\ \E levels \in SeqsUpTo(0..MaxDefLevel, MaxRepLevels),
          max_definition_level \in 1..MaxDefLevel,
          max_repetition_level \in 0..1,
          offset \in BitmapOffsets, bit \in {0, 1} :
         bm_in = [def_levels |-> levels, max_definition_level |-> max_definition_level,
                  max_repetition_level |-> max_repetition_level,
                  valid_bits_offset |-> offset,
                  null_bitmap |-> [i \in 1..(2 * BitsPerByte) |-> bit]]
    /\ bm_out = NoBitmap

DoDefinitionLevelsToBitmapRep ==
    /\ bm_out = NoBitmap
    /\ bm_out' = DefinitionLevelsToBitmapRep(bm_in.def_levels,
                     bm_in.max_definition_level, bm_in.max_repetition_level, 0,
                     bm_in.null_bitmap, bm_in.valid_bits_offset)
    /\ UNCHANGED <<bm_in, readerVars, rleVars, fileVars, twoVars, apiVars, binVars>>

\* an optional column of PLAIN pages of up to MaxScatterRows rows, the
\* values of a page taken from the front of one of two value lists
OptionalColumn == [max_def |-> 1, max_rep |-> 0, required |-> FALSE, optional |-> TRUE]

ScatterValues == {<<5, 7, 9>>, <<6, 8, 4>>}

ScatterPool ==
    {[type |-> "DATA_PAGE", encoding |-> "PLAIN", num_values |-> Len(lv),
      def_levels |-> lv, rep_levels |-> <<>>,
      values |-> Take(vs, CountEq(lv, OptionalColumn.max_def))] :
        lv \in SeqsUpTo(0..OptionalColumn.max_def, MaxScatterRows), vs \in ScatterValues}

ScatterInit ==
    /\ NDEBUG \in BOOLEAN
    /\ descr = OptionalColumn
    /\ pages \in SeqsUpTo(ScatterPool, MaxPages)
    /\ pager_pos = 0
    /\ num_buffered_values_ = 0
    /\ num_decoded_values_ = 0
    /\ decoders_ = {}
    /\ current_decoder_ = NullDecoder
    /\ dictionary = <<>>
    /\ decoder_data = [k \in DecoderKeys |-> <<>>]
    /\ definition_levels_left = <<>>
    /\ repetition_levels_left = <<>>
    /\ aborted = FALSE
    /\ call = NoCall

\* a repeated column whose pages may carry fewer repetition levels than
\* definition levels
RepeatedColumn == [max_def |-> 1, max_rep |-> 1, required |-> TRUE, optional |-> FALSE]

LevelsPool ==
    {[type |-> "DATA_PAGE", encoding |-> "PLAIN", num_values |-> Len(lv),
      def_levels |-> lv, rep_levels |-> [i \in 1..k |-> 0],
      values |-> PlainValues(CountEq(lv, RepeatedColumn.max_def))] :
        lv \in SeqsUpTo(0..RepeatedColumn.max_def, MaxRows), k \in 0..MaxRows}

LevelsInit ==
    /\ NDEBUG \in BOOLEAN
    /\ descr = RepeatedColumn
    /\ pages \in SeqsUpTo({p \in LevelsPool : Len(p.rep_levels) <= p.num_values},
                          MaxPages)
    /\ pager_pos = 0
    /\ num_buffered_values_ = 0
    /\ num_decoded_values_ = 0
    /\ decoders_ = {}
    /\ current_decoder_ = NullDecoder
    /\ dictionary = <<>>
    /\ decoder_data = [k \in DecoderKeys |-> <<>>]
    /\ definition_levels_left = <<>>
    /\ repetition_levels_left = <<>>
    /\ aborted = FALSE
    /\ call = NoCall

(***************************************************************************)
(* read_parquet over a file of one column: _ReadFile of part_003 binds a  *)
(* fresh ColumnReader per row group and calls ToGdfColumn on it.           *)
(***************************************************************************)
MaxRowGroups == 2

GDF_SUCCESS == "GDF_SUCCESS"
GDF_IO_ERROR == "GDF_IO_ERROR"

NoColumn == [data |-> <<>>, valid |-> <<>>, size |-> 0]

RequiredColumn == [max_def |-> 0, max_rep |-> 0, required |-> TRUE, optional |-> FALSE]

\* the column chunks a row group may hold
FilePagePool ==
    {p \in PagePool(RequiredColumn) :
        /\ p.type # "INDEX_PAGE"
        /\ p.encoding \in {"PLAIN", "RLE_DICTIONARY", "DELTA_BINARY_PACKED"}}

\* metadata->num_rows()
RECURSIVE FileRows(_)
FileRows(groups) ==
    IF groups = <<>> THEN 0 ELSE NumRows(groups[1]) + FileRows(Drop(groups, 1))

PhysicalTypes ==
    {"BOOLEAN", "INT32", "INT64", "INT96", "FLOAT", "DOUBLE", "BYTE_ARRAY",
     "FIXED_LEN_BYTE_ARRAY"}

LogicalTypes ==
    {"NONE", "UTF8", "MAP", "MAP_KEY_VALUE", "LIST", "ENUM", "DECIMAL", "DATE",
     "TIME_MILLIS", "TIME_MICROS", "TIMESTAMP_MILLIS", "TIMESTAMP_MICROS",
     "UINT_8", "UINT_16", "UINT_32", "UINT_64", "INT_8", "INT_16", "INT_32",
     "INT_64", "JSON", "BSON", "INTERVAL", "NA"}

GDF_invalid == "GDF_invalid"

dtype_from_physical_type_map ==
    [t \in PhysicalTypes |->
       CASE t = "BOOLEAN" -> "GDF_INT8"
         [] t = "INT32" -> "GDF_INT32"
         [] t = "INT64" -> "GDF_INT64"
         [] t = "FLOAT" -> "GDF_FLOAT32"
         [] t = "DOUBLE" -> "GDF_FLOAT64"
         [] OTHER -> GDF_invalid]

dtype_from_logical_type_map ==
    [t \in LogicalTypes |->
       CASE t = "DATE" -> "GDF_DATE32"
         [] t = "TIMESTAMP_MILLIS" -> "GDF_TIMESTAMP"
         [] t = "INT_8" -> "GDF_INT8"
         [] t = "INT_16" -> "GDF_INT16"
         [] t = "INT_32" -> "GDF_INT32"
         [] t = "INT_64" -> "GDF_INT64"
         [] OTHER -> GDF_invalid]

DTypeFrom(column_descriptor) ==
    IF column_descriptor.logical # "NONE"
    THEN dtype_from_logical_type_map[column_descriptor.logical]
    ELSE dtype_from_physical_type_map[column_descriptor.physical]

\* the values a gdf_dtype field can hold
GdfDtypes ==
    {dtype_from_physical_type_map[t] : t \in PhysicalTypes}
    \cup {dtype_from_logical_type_map[t] : t \in LogicalTypes}

\* the physical types the switch of _AllocateGdfColumns has a case for
AllocatedTypes == PhysicalTypes

\* the allocations made on the way: new gdf_column[], the two buffers of a
\* column, the level buffers of _ReadFile, the host mask of ToGdfColumn
GdfColumns == "gdf_columns"
LevelBuffers == {"definition_levels", "repetition_levels"}
ColumnBuffers == {"data", "valid"}
HostValidBits == "h_valid_bits"

NoOut == "unset"

\* _AllocateGdfColumn: the data buffer, then the validity buffer, then size
\* and dtype; a failed allocation returns before the rest, which keeps what
\* new gdf_column[] left there
AllocateGdfColumn(num_rows, column_descriptor, fail, bit, garbage) ==
    IF fail = "data"
    THEN [err |-> GDF_IO_ERROR, live |-> {}, dtype |-> garbage.dtype,
          column |-> [data |-> <<>>, valid |-> <<>>, size |-> garbage.size]]
    ELSE IF fail = "valid"
    THEN [err |-> GDF_IO_ERROR, live |-> {"data"}, dtype |-> garbage.dtype,
          column |-> [data |-> [i \in 1..num_rows |-> Untouched], valid |-> <<>>,
                      size |-> garbage.size]]
    ELSE [err |-> GDF_SUCCESS, live |-> ColumnBuffers,
          dtype |-> DTypeFrom(column_descriptor),
          column |-> [data |-> [i \in 1..num_rows |-> Untouched],
                      valid |-> [i \in 1..(CeilDiv(num_rows, BitsPerByte)
                                            * BitsPerByte) |-> bit],
                      size |-> num_rows]]

\* _AllocateGdfColumns: the WHEN macro drops what _AllocateGdfColumn returns
AllocateGdfColumns(column_descriptor) ==
    IF column_descriptor.physical \in AllocatedTypes THEN GDF_SUCCESS ELSE GDF_IO_ERROR

\* what new gdf_column[] may have left in size and dtype
GarbageColumns(num_rows) ==
    [size : 0..(num_rows + 1), dtype : GdfDtypes]

Int32Column == [physical |-> "INT32", logical |-> "NONE"]

FileInit ==
    /\ row_groups \in SeqsUpTo(SeqsUpTo(FilePagePool, MaxPages), MaxRowGroups)
    /\ row_group_index = 0
    /\ gdf_column = NoColumn
    /\ status = "open"
    /\ column_type = Int32Column
    /\ alloc_fail = "none"
    /\ dtype = GDF_invalid
    /\ heap = {}
    /\ out_gdf_columns = NoOut

\* the column chunks of the files read over every column type
AllocPagePool ==
    {DataPage(e, RequiredColumn, <<>>, 1) : e \in {"PLAIN", "RLE_DICTIONARY"}}

\* the column descriptors: each physical type alone, and the logical types
\* the format annotates them with
ColumnTypes ==
    [physical : PhysicalTypes, logical : {"NONE"}]
    \cup [physical : {"INT32"}, logical : {"DECIMAL", "DATE", "INT_8", "UINT_32"}]
    \cup [physical : {"INT64"}, logical : {"TIMESTAMP_MILLIS", "TIMESTAMP_MICROS"}]
    \cup [physical : {"BYTE_ARRAY"}, logical : {"UTF8"}]

AllocInit ==
    /\ row_groups \in SeqsUpTo(SeqsUpTo(AllocPagePool, 1), MaxRowGroups)
    /\ row_group_index = 0
    /\ gdf_column = NoColumn
    /\ status = "open"
    /\ column_type \in ColumnTypes
    /\ alloc_fail \in {"none", "data", "valid"}
    /\ dtype = GDF_invalid
    /\ heap = {}
    /\ out_gdf_columns = NoOut

\* read_parquet up to _ReadFile's loop: _CheckMinimalData, _CreateGdfColumns,
\* _AllocateGdfColumns, the level buffers of _ReadFile
DoReadParquet ==
    /\ status = "open"
    /\ IF Len(row_groups) = 0 \/ FileRows(row_groups) = 0
       THEN status' = GDF_IO_ERROR /\ UNCHANGED <<gdf_column, dtype, heap>>
       ELSE IF AllocateGdfColumns(column_type) # GDF_SUCCESS
       THEN /\ status' = GDF_IO_ERROR
            /\ heap' = {GdfColumns}
            /\ UNCHANGED <<gdf_column, dtype>>
       ELSE /\ status' = "reading"
            /\ \E bit \in {0, 1} :
                \E garbage \in IF alloc_fail = "none"
                                THEN {[size |-> 0, dtype |-> GDF_invalid]}
                                ELSE GarbageColumns(FileRows(row_groups)) :
                \E a \in {AllocateGdfColumn(FileRows(row_groups), column_type,
                                             alloc_fail, bit, garbage)} :
                  /\ gdf_column' = a.column
                  /\ dtype' = a.dtype
                  /\ heap' = {GdfColumns} \cup a.live \cup LevelBuffers
    /\ UNCHANGED <<row_groups, row_group_index, column_type, alloc_fail, out_gdf_columns>>
    /\ UNCHANGED <<readerVars, rleVars, bmVars, twoVars, apiVars, binVars>>

\* file_reader->RowGroup(row_group_index), row_group_reader->Column(...)
DoRowGroupColumn ==
    /\ status = "reading"
    /\ row_group_index < Len(row_groups)
    /\ pages' = row_groups[row_group_index + 1]
    /\ pager_pos' = 0
    /\ num_buffered_values_' = 0
    /\ num_decoded_values_' = 0
    /\ decoders_' = {}
    /\ current_decoder_' = NullDecoder
    /\ dictionary' = <<>>
    /\ decoder_data' = [k \in DecoderKeys |-> <<>>]
    /\ definition_levels_left' = <<>>
    /\ repetition_levels_left' = <<>>
    /\ call' = NoCall
    /\ status' = "column"
    /\ UNCHANGED <<NDEBUG, descr, aborted, row_groups, row_group_index, gdf_column>>
    /\ UNCHANGED <<column_type, alloc_fail, dtype, heap, out_gdf_columns>>
    /\ UNCHANGED <<rleVars, bmVars, twoVars, apiVars, binVars>>

\* what ToGdfColumn wrote into the column: the values it stored and the
\* n_bytes of mask it copied
ColumnAfter(column, o) ==
    [column EXCEPT
       !.data = [i \in DOMAIN @ |-> IF o.data[i] # Untouched THEN o.data[i] ELSE @[i]],
       !.valid = [i \in DOMAIN @ |-> IF i <= Len(o.valid) THEN o.valid[i] ELSE @[i]]]

\* ToGdfColumn stored a value or copied mask bytes
Wrote(o) ==
    (\E i \in DOMAIN o.data : o.data[i] # Untouched) \/ Len(o.valid) > 0

\* how the call ends for _ReadFile: a store through a column pointer that
\* _AllocateGdfColumn never set is undefined, an exception passes through
ColumnOutcome(o, live) ==
    IF Wrote(o) /\ ~(ColumnBuffers \subseteq live) THEN Undefined ELSE o.err

\* DCHECK_GE(num_rows, column_reader->ToGdfColumn(definition_levels,
\* repetition_levels, _gdf_column)): with NDEBUG the macro may drop its
\* operands, so the call is made or not; nothing catches what it throws
DoColumnToGdf ==
    /\ status = "column"
    /\ \E evaluated \in {TRUE} \cup {~NDEBUG} :
         IF ~evaluated
         THEN /\ status' = "reading"
              /\ row_group_index' = row_group_index + 1
              /\ UNCHANGED <<readerVars, gdf_column, heap>>
         ELSE \E level \in GarbageLevels, bit \in {0, 1} :
              \E o \in {ToGdfColumn(Reader, FileRows(row_groups), level, bit)} :
                /\ pager_pos' = o.r.pos
                /\ num_buffered_values_' = o.r.nbuf
                /\ num_decoded_values_' = o.r.ndec
                /\ decoders_' = o.r.decoders
                /\ current_decoder_' = o.r.cur
                /\ dictionary' = o.r.dict
                /\ decoder_data' = o.r.data
                /\ definition_levels_left' = o.r.deflv
                /\ repetition_levels_left' = o.r.replv
                /\ aborted' = (o.err \in {Abort, Diverges})
                /\ call' = [NoCall EXCEPT !.op = "ToGdfColumn", !.pre = Pre(Reader),
                                           !.ret = o.ret, !.err = o.err]
                /\ gdf_column' = ColumnAfter(gdf_column, o)
                /\ heap' = heap \cup {HostValidBits}
                /\ status' = IF ColumnOutcome(o, heap) = NoError THEN "reading"
                              ELSE ColumnOutcome(o, heap)
                /\ row_group_index' = IF ColumnOutcome(o, heap) = NoError
                                      THEN row_group_index + 1
                                      ELSE row_group_index
                /\ UNCHANGED <<NDEBUG, pages, descr>>
    /\ UNCHANGED <<row_groups, column_type, alloc_fail, dtype, out_gdf_columns>>
    /\ UNCHANGED <<rleVars, bmVars, twoVars, apiVars, binVars>>

\* _ReadFile returns GDF_SUCCESS after the last row group, read_parquet
\* hands the columns out
DoReadFileDone ==
    /\ status = "reading"
    /\ row_group_index = Len(row_groups)
    /\ status' = GDF_SUCCESS
    /\ heap' = heap \ LevelBuffers
    /\ out_gdf_columns' = GdfColumns
    /\ UNCHANGED <<row_groups, row_group_index, gdf_column, column_type, alloc_fail, dtype>>
    /\ UNCHANGED <<readerVars, rleVars, bmVars, twoVars, apiVars, binVars>>

(***************************************************************************)
(* The specifications.                                                     *)
(***************************************************************************)
ReaderIdle ==
    /\ descr = [max_def |-> 0, max_rep |-> 0, required |-> TRUE, optional |-> FALSE]
    /\ pages = <<>>
    /\ pager_pos = 0
    /\ num_buffered_values_ = 0
    /\ num_decoded_values_ = 0
    /\ decoders_ = {}
    /\ current_decoder_ = NullDecoder
    /\ dictionary = <<>>
    /\ decoder_data = [k \in DecoderKeys |-> <<>>]
    /\ definition_levels_left = <<>>
    /\ repetition_levels_left = <<>>
    /\ call = NoCall

RleIdle ==
    /\ rle_buffer = <<>>
    /\ bit_width_ = 0
    /\ bit_pos = 0
    /\ current_value_ = 0
    /\ repeat_count_ = 0
    /\ literal_count_ = 0
    /\ rle_runs = <<>>
    /\ rle_intact = TRUE
    /\ rle_taken = 0
    /\ rle_call = NoRleCall

BmIdle == bm_in = NoBitmap /\ bm_out = NoBitmap

FileIdle ==
    /\ row_groups = <<>>
    /\ row_group_index = 0
    /\ gdf_column = NoColumn
    /\ status = "idle"
    /\ column_type = Int32Column
    /\ alloc_fail = "none"
    /\ dtype = GDF_invalid
    /\ heap = {}
    /\ out_gdf_columns = NoOut

FreshReader ==
    [pos |-> 0, nbuf |-> 0, ndec |-> 0, decoders |-> {}, cur |-> NullDecoder,
     dict |-> <<>>, data |-> [k \in DecoderKeys |-> <<>>], deflv |-> <<>>,
     replv |-> <<>>]

NoParked ==
    [pages |-> <<>>,
     descr |-> [max_def |-> 0, max_rep |-> 0, required |-> TRUE, optional |-> FALSE],
     r |-> FreshReader, call |-> NoCall, ops |-> <<>>]

TwoIdle == parked = NoParked /\ ops = <<>> /\ switches = 0

NoReadCall == [op |-> "none", indices |-> <<>>, slots |-> 0, written |-> {}, length |-> 0]

ApiIdle == column_names = <<>> /\ filter_names = <<>> /\ read_call = NoReadCall

BinIdle == op_calls = <<>>

vars == <<readerVars, rleVars, bmVars, fileVars, twoVars, apiVars, binVars>>

\* one ColumnReader over a page source
Init == ReaderInit /\ RleIdle /\ BmIdle /\ FileIdle /\ TwoIdle /\ ApiIdle /\ BinIdle

Next == ReaderNext

Spec == Init /\ [][Next]_vars

\* one ColumnReader converted into a gdf column
GdfNext == DoHasNext \/ DoToGdfColumn

SpecGdf == Init /\ [][GdfNext]_vars

\* one RleDecoder over a byte buffer
RleSpecInit == RleInit /\ ReaderIdle /\ BmIdle /\ FileIdle /\ TwoIdle /\ ApiIdle /\ BinIdle

RleNext == DoReset \/ DoGetBatch \/ DoGetBatchWithDict \/ DoGetBatchWithDictSpaced

SpecRle == RleSpecInit /\ [][RleNext]_vars

\* one call of _DefinitionLevelsToBitmap
BitmapInit == BmInit /\ ReaderIdle /\ RleIdle /\ FileIdle /\ TwoIdle /\ ApiIdle /\ BinIdle /\ NDEBUG = TRUE /\ aborted = FALSE

BitmapNext == DoDefinitionLevelsToBitmap

SpecBitmap == BitmapInit /\ [][BitmapNext]_vars

\* ToGdfColumn over an optional column with nulls
ScatterSpecInit == ScatterInit /\ RleIdle /\ BmIdle /\ FileIdle /\ TwoIdle /\ ApiIdle /\ BinIdle

SpecScatter == ScatterSpecInit /\ [][GdfNext]_vars

\* read_parquet over a file of one required column
FileSpecInit ==
    /\ NDEBUG \in BOOLEAN
    /\ aborted = FALSE
    /\ ReaderIdle /\ RleIdle /\ BmIdle /\ TwoIdle /\ ApiIdle /\ BinIdle
    /\ FileInit

FileNext == DoReadParquet \/ DoRowGroupColumn \/ DoColumnToGdf \/ DoReadFileDone

SpecFile == FileSpecInit /\ [][FileNext]_vars

\* read_parquet over column types and allocation outcomes
AllocSpecInit ==
    /\ NDEBUG \in BOOLEAN
    /\ aborted = FALSE
    /\ ReaderIdle /\ RleIdle /\ BmIdle /\ TwoIdle /\ ApiIdle /\ BinIdle
    /\ AllocInit

SpecAlloc == AllocSpecInit /\ [][FileNext]_vars

\* the reader over a repeated column with short repetition-level streams
LevelsSpecInit == LevelsInit /\ RleIdle /\ BmIdle /\ FileIdle /\ TwoIdle /\ ApiIdle /\ BinIdle

SpecLevels == LevelsSpecInit /\ [][ReaderNext]_vars

\* the two level-to-bitmap conversions
BitmapRepInit == BmRepInit /\ ReaderIdle /\ RleIdle /\ FileIdle /\ TwoIdle /\ ApiIdle /\ BinIdle /\ NDEBUG = TRUE /\ aborted = FALSE

BitmapRepNext == DoDefinitionLevelsToBitmap \/ DoDefinitionLevelsToBitmapRep

SpecBitmapRep == BitmapRepInit /\ [][BitmapRepNext]_vars

\* one call of the repetition-aware _DefinitionLevelsToBitmap
RepBitmapNext == DoDefinitionLevelsToBitmapRep

SpecRepBitmap == BitmapRepInit /\ [][RepBitmapNext]_vars

(***************************************************************************)
(* Two ColumnReaders of distinct columns taking turns.  The reader         *)
(* variables hold the reader that is running; parked holds the other one.  *)
(***************************************************************************)
MaxTwoOps == 3

MaxSwitches == 3

\* the operations a caller steps a reader with
TwoOps ==
    {[op |-> "HasNext", n |-> 0], [op |-> "ReadBatch", n |-> 1],
     [op |-> "ReadBatch", n |-> 2], [op |-> "ReadBatchSpaced", n |-> 2],
     [op |-> "ToGdfColumn", n |-> 0]}

\* one operation on the reader r of the running column
Apply(r, op) ==
    IF op.op = "HasNext" THEN HasNext(r)
    ELSE IF op.op = "ReadBatch" THEN ReadBatch(r, op.n, TRUE, FALSE)
    ELSE IF op.op = "ReadBatchSpaced"
    THEN ReadBatchSpaced(r, op.n, ZeroBits(BitsPerByte), 0)
    ELSE ToGdfColumn(r, NumRows(pages), 0, 0)

\* the values the operation handed to its caller
Output(op, o) ==
    IF op.op = "HasNext" THEN <<>>
    ELSE IF op.op = "ToGdfColumn" THEN o.data
    ELSE o.values

\* the page sources of a column chunk with descriptor d
TwoPages(d) ==
    {<<DataPage("PLAIN", d, s.lv, s.present)>> : s \in Shapes(d, MaxRows)}
    \cup {<<DictionaryPage("PLAIN"), DataPage("RLE_DICTIONARY", d, s.lv, s.present)>> :
             s \in {x \in Shapes(d, 1) : x.present = 1}}
    \cup {<<DataPage("PLAIN", d, s.lv, s.present), DataPage("PLAIN", d, s.lv, s.present)>> :
             s \in {x \in Shapes(d, 1) : x.present = 1}}

TwoInit ==
    /\ NDEBUG \in BOOLEAN
    /\ descr \in Descriptors
    /\ pages \in TwoPages(descr)
    /\ pager_pos = 0
    /\ num_buffered_values_ = 0
    /\ num_decoded_values_ = 0
    /\ decoders_ = {}
    /\ current_decoder_ = NullDecoder
    /\ dictionary = <<>>
    /\ decoder_data = [k \in DecoderKeys |-> <<>>]
    /\ definition_levels_left = <<>>
    /\ repetition_levels_left = <<>>
    /\ aborted = FALSE
    /\ call = NoCall
    /\ \E d \in {x \in Descriptors : x.max_rep = 0} :
         parked \in {[NoParked EXCEPT !.descr = d, !.pages = ps] :
                        ps \in {<<DataPage("PLAIN", d, s.lv, s.present)>> :
                                  s \in {x \in Shapes(d, MaxRows) : x.present = MaxRows}}
                              \cup {<<DictionaryPage("PLAIN"),
                                      DataPage("RLE_DICTIONARY", d, s.lv, s.present)>> :
                                      s \in {x \in Shapes(d, 1) : x.present = 1}}}
    /\ ops = <<>>
    /\ switches = 0

\* the running reader executes one operation
DoReaderStep ==
    /\ ~aborted
    /\ Len(ops) + Len(parked.ops) < MaxTwoOps
    /\ \E op \in TwoOps :
         \E o \in {Apply(Reader, op)} :
             /\ SetReaderFields(o.r, o.err)
             /\ call' = [NoCall EXCEPT !.op = op.op, !.n = op.n, !.pre = Pre(Reader),
                                        !.ret = o.ret, !.err = o.err,
                                        !.values = Output(op, o)]
             /\ ops' = Append(ops, [op |-> op.op, n |-> op.n, turn |-> switches])
             /\ UNCHANGED <<parked, switches>>

\* the caller turns to the other reader
DoSwitch ==
    /\ ~aborted
    /\ switches < MaxSwitches
    /\ pages' = parked.pages
    /\ descr' = parked.descr
    /\ pager_pos' = parked.r.pos
    /\ num_buffered_values_' = parked.r.nbuf
    /\ num_decoded_values_' = parked.r.ndec
    /\ decoders_' = parked.r.decoders
    /\ current_decoder_' = parked.r.cur
    /\ dictionary' = parked.r.dict
    /\ decoder_data' = parked.r.data
    /\ definition_levels_left' = parked.r.deflv
    /\ repetition_levels_left' = parked.r.replv
    /\ call' = parked.call
    /\ ops' = parked.ops
    /\ parked' = [pages |-> pages, descr |-> descr, r |-> Reader, call |-> call,
                  ops |-> ops]
    /\ switches' = switches + 1
    /\ UNCHANGED <<NDEBUG, aborted>>
    /\ UNCHANGED <<rleVars, bmVars, fileVars, apiVars, binVars>>

TwoSpecInit == TwoInit /\ RleIdle /\ BmIdle /\ FileIdle /\ ApiIdle /\ BinIdle

TwoNext == DoReaderStep \/ DoSwitch

SpecTwo == TwoSpecInit /\ [][TwoNext]_vars

(***************************************************************************)
(* One ColumnReader over column chunks that mix PLAIN and                  *)
(* dictionary-encoded data pages.                                          *)
(***************************************************************************)
MaxDictPages == 3

DictPagePool(d) ==
    {DictionaryPage("PLAIN")}
    \cup {DataPage(e, d, s.lv, s.present) :
             e \in {"PLAIN", "RLE_DICTIONARY", "PLAIN_DICTIONARY"},
             s \in {x \in Shapes(d, 1) : x.present = 1}}

DictInit ==
    /\ NDEBUG \in BOOLEAN
    /\ descr \in Descriptors
    /\ pages \in SeqsUpTo(DictPagePool(descr), MaxDictPages)
    /\ pager_pos = 0
    /\ num_buffered_values_ = 0
    /\ num_decoded_values_ = 0
    /\ decoders_ = {}
    /\ current_decoder_ = NullDecoder
    /\ dictionary = <<>>
    /\ decoder_data = [k \in DecoderKeys |-> <<>>]
    /\ definition_levels_left = <<>>
    /\ repetition_levels_left = <<>>
    /\ aborted = FALSE
    /\ call = NoCall

DictSpecInit == DictInit /\ RleIdle /\ BmIdle /\ FileIdle /\ TwoIdle /\ ApiIdle /\ BinIdle

SpecDict == DictSpecInit /\ [][ReaderNext]_vars

(***************************************************************************)
(* One RleDecoder asked for a + b values in two requests, beside the same  *)
(* decoder asked for them in one.                                          *)
(***************************************************************************)
MaxSplit == 2

\* the decoder after the two requests, and what the caller saw of the three
SetSplit(op, a, b, first, second, joint) ==
    /\ bit_pos' = second.st.pos
    /\ current_value_' = second.st.current_value
    /\ repeat_count_' = second.st.repeat_count
    /\ literal_count_' = second.st.literal_count
    /\ rle_taken' = rle_taken + first.ret + second.ret
    /\ aborted' = (first.err \in {Abort, Undefined} \/ second.err \in {Abort, Undefined})
    /\ rle_call' = [op |-> op, a |-> a, b |-> b,
                    first |-> [ret |-> first.ret, out |-> first.out, err |-> first.err],
                    second |-> [ret |-> second.ret, out |-> second.out,
                                err |-> second.err, st |-> second.st],
                    joint |-> [ret |-> joint.ret, out |-> joint.out, err |-> joint.err,
                               st |-> joint.st]]
    /\ UNCHANGED <<rle_buffer, bit_width_, rle_runs, rle_intact, NDEBUG>>
    /\ UNCHANGED <<readerState, bmVars, fileVars, twoVars, apiVars, binVars>>

\* a request that is not made because the one before it ended the process
NotMade(st) == RleResult(st, 0, <<>>, NoError, TRUE)

DoGetBatchSplit ==
    /\ ~aborted
    /\ \E a \in 0..MaxSplit, b \in 0..MaxSplit :
         \E first \in {GetBatch(rle_buffer, Rle, a)} :
         \E second \in {IF first.err = NoError THEN GetBatch(rle_buffer, first.st, b)
                         ELSE NotMade(first.st)} :
         \E joint \in {GetBatch(rle_buffer, Rle, a + b)} :
             SetSplit("GetBatch", a, b, first, second, joint)

DoGetBatchWithDictSplit ==
    /\ ~aborted
    /\ \E a \in 0..MaxSplit, b \in 0..MaxSplit :
         \E first \in {GetBatchWithDict(rle_buffer, Rle, RleDictionary(bit_width_), a)} :
         \E second \in {IF first.err = NoError
                         THEN GetBatchWithDict(rle_buffer, first.st,
                                               RleDictionary(bit_width_), b)
                         ELSE NotMade(first.st)} :
         \E joint \in {GetBatchWithDict(rle_buffer, Rle, RleDictionary(bit_width_), a + b)} :
             SetSplit("GetBatchWithDict", a, b, first, second, joint)

(***************************************************************************)
(* One RleDecoder over streams whose run header uses all 32 bits.          *)
(***************************************************************************)
\* run headers as their VLQ bytes: small repeated and literal runs (2, 4,
\* 3), literal counts whose product with 8 leaves 31 bits (2^29 + 1,
\* 2^30 + 1), and values that are negative as a signed 32-bit integer
\* (2^31, 2^31 + 1, 2^32 - 2, 2^32 - 1)
WideHeaders ==
    {<<2>>, <<4>>, <<3>>,
     <<129, 128, 128, 128, 2>>, <<129, 128, 128, 128, 4>>,
     <<128, 128, 128, 128, 8>>, <<129, 128, 128, 128, 8>>,
     <<254, 255, 255, 255, 15>>, <<255, 255, 255, 255, 15>>}

HeaderInit ==
    /\ NDEBUG \in BOOLEAN
    /\ bit_width_ \in BitWidths
    /\ rle_runs = <<>>
    /\ rle_intact = FALSE
    /\ rle_buffer \in {h \o tail : h \in WideHeaders, tail \in {<<1>>, <<1, 2>>}}
    /\ bit_pos = 0
    /\ current_value_ = 0
    /\ repeat_count_ = 0
    /\ literal_count_ = 0
    /\ rle_taken = 0
    /\ rle_call = NoRleCall
    /\ aborted = FALSE

HeaderSpecInit == HeaderInit /\ ReaderIdle /\ BmIdle /\ FileIdle /\ TwoIdle /\ ApiIdle /\ BinIdle

HeaderNext == DoGetBatch \/ DoGetBatchWithDict

SpecHeader == HeaderSpecInit /\ [][HeaderNext]_vars

SplitNext == DoGetBatchSplit \/ DoGetBatchWithDictSplit

SpecSplit == RleSpecInit /\ [][SplitNext]_vars

(***************************************************************************)
(* ToGdfColumn over column chunks of up to two PLAIN data pages whose row  *)
(* counts reach the byte boundary of the mask.                             *)
(***************************************************************************)
MaxWideRows == 8

WideRows == {1, MaxWideRows - 1, MaxWideRows}

\* the pages of k rows: all rows present, or the first row null when the
\* column has levels
WidePages(d) ==
    {DataPage("PLAIN", d, s.lv, s.present) :
        s \in IF d.max_def > 0
              THEN {[lv |-> [i \in 1..k |-> IF i = 1 THEN first ELSE d.max_def],
                     present |-> IF first = d.max_def THEN k ELSE k - 1] :
                       k \in WideRows, first \in {0, d.max_def}}
              ELSE {[lv |-> <<>>, present |-> k] : k \in WideRows}}

WideInit ==
    /\ NDEBUG \in BOOLEAN
    /\ descr \in {x \in Descriptors : x.max_rep = 0}
    /\ pages \in {ps \in SeqsUpTo(WidePages(descr), 2) : ps # <<>>}
    /\ pager_pos = 0
    /\ num_buffered_values_ = 0
    /\ num_decoded_values_ = 0
    /\ decoders_ = {}
    /\ current_decoder_ = NullDecoder
    /\ dictionary = <<>>
    /\ decoder_data = [k \in DecoderKeys |-> <<>>]
    /\ definition_levels_left = <<>>
    /\ repetition_levels_left = <<>>
    /\ aborted = FALSE
    /\ call = NoCall

WideSpecInit == WideInit /\ RleIdle /\ BmIdle /\ FileIdle /\ TwoIdle /\ ApiIdle /\ BinIdle

SpecWide == WideSpecInit /\ [][GdfNext]_vars

(***************************************************************************)
(* Claims about the ColumnReader.                                          *)
(***************************************************************************)
IsRead == call.op \in {"ReadBatch", "ReadBatchSpaced"}

Decoded == call.ret > 0 \/ call.levels_read > 0 \/ call.values_read > 0

\* C1: after any sequence of HasNext, ReadNewPage, ReadBatch and
\* ReadBatchSpaced calls 0 <= num_decoded_values_ <= num_buffered_values_, and
\* a read that starts with the two counters equal decodes something only
\* after it has fetched a new page.
C1_CountersInvariant ==
    /\ 0 <= num_decoded_values_
    /\ num_decoded_values_ <= num_buffered_values_
    /\ (IsRead /\ call.pre.ndec = call.pre.nbuf /\ Decoded)
          => (pager_pos > call.pre.pos /\ call.dec0 = 0)

C1_Witness ==
    /\ call.op = "ReadBatch"
    /\ call.pre.nbuf > 0
    /\ call.pre.ndec = call.pre.nbuf
    /\ call.ret > 0
    /\ num_decoded_values_ = num_buffered_values_

RequiresFetch(pre) == pre.nbuf = 0 \/ pre.ndec = pre.nbuf

\* C3: HasNext() returns true if the current page still has undecoded values
\* or a fresh non-empty data page can be fetched, and returns false only at
\* the true end of the column (the page source has no further pages).
C3_HasNextFalseOnlyAtEnd ==
    (call.op = "HasNext" /\ call.err = NoError)
    => /\ (~RequiresFetch(call.pre) => call.ret = TRUE)
       /\ (call.ret = FALSE => pager_pos = Len(pages))

\* an empty data page is the next data page, and a non-empty PLAIN data page
\* follows it
EmptyThenData(pos) ==
    \E i \in 1..Len(pages), j \in 1..Len(pages) :
        /\ pos < i /\ i < j
        /\ \A k \in (pos + 1)..(i - 1) : pages[k].type = "INDEX_PAGE"
        /\ pages[i].type = "DATA_PAGE" /\ pages[i].encoding = "PLAIN"
        /\ pages[i].num_values = 0
        /\ \A k \in (i + 1)..(j - 1) : pages[k].type = "INDEX_PAGE"
        /\ pages[j].type = "DATA_PAGE" /\ pages[j].encoding = "PLAIN"
        /\ pages[j].num_values > 0

\* C4: when the page source yields a data page with num_values = 0 followed
\* by further pages, HasNext() advances past it, leaving the counters alone,
\* and reports the later non-empty data page.
C4_EmptyPageSkipped ==
    (/\ call.op = "HasNext"
     /\ call.err = NoError
     /\ RequiresFetch(call.pre)
     /\ EmptyThenData(call.pre.pos))
    => /\ call.ret = TRUE
       /\ num_buffered_values_ > 0
       /\ num_decoded_values_ = 0

(***************************************************************************)
(* Claims about the RleDecoder.                                            *)
(***************************************************************************)
\* the values the stream was encoded from that a call starting after
\* `taken` values is to deliver
Expected(k) == Original(rle_runs)[rle_call.taken + k]

InOriginal(k) == rle_call.taken + k <= Len(Original(rle_runs))

\* C5: on the encoding of any run sequence (repeated and literal runs mixed,
\* a single run, or none) GetBatch delivers the original values in order:
\* a call made after k values delivers the values k+1, k+2, ..., and as many
\* of them as were asked for while the original sequence lasts.
C5_RoundTrip ==
    (rle_intact /\ rle_call.op = "GetBatch")
    => /\ rle_call.err = NoError
       /\ rle_call.ret >= Min(rle_call.n, Len(Original(rle_runs)) - rle_call.taken)
       /\ \A k \in 1..rle_call.ret :
            InOriginal(k) => rle_call.out[k] = Expected(k)

C5_Witness ==
    /\ rle_intact
    /\ rle_call.op = "GetBatch"
    /\ Len(rle_runs) = 2
    /\ ~rle_runs[1].literal /\ rle_runs[2].literal
    /\ rle_call.taken < Len(rle_runs[1].values)
    /\ rle_call.taken + rle_call.ret > Len(rle_runs[1].values)
    /\ bit_width_ = 3

\* no run is open and no byte is left for a run header
Exhausted ==
    /\ repeat_count_ = 0
    /\ literal_count_ = 0
    /\ CeilDiv(bit_pos, BitsPerByte) >= Len(rle_buffer)

Produced(out) == Cardinality({i \in DOMAIN out : out[i] # Untouched})

\* C6: GetBatch(out, n) returns, without an error, the number of values it
\* produced, at most n; fewer than n only when no further run header can be
\* read, and 0 (for n > 0) only when the stream is exhausted.
C6_GetBatchCount ==
    rle_call.op = "GetBatch"
    => /\ rle_call.err = NoError
       /\ rle_call.ret = Produced(rle_call.out)
       /\ rle_call.ret <= rle_call.n
       /\ (rle_call.ret < rle_call.n => Exhausted)

\* C7: after any sequence of Reset, GetBatch, GetBatchWithDict and
\* GetBatchWithDictSpaced calls at most one of repeat_count_ and
\* literal_count_ is positive, and every run header the last call read was
\* read with both at zero.
C7_OneRunAtATime ==
    /\ ~(repeat_count_ # 0 /\ literal_count_ # 0)
    /\ rle_call.hdr

C7_Witness ==
    /\ rle_call.op = "GetBatchWithDictSpaced"
    /\ rle_call.err = NoError
    /\ rle_call.pre.repeat_count # 0
    /\ literal_count_ # 0

\* C8: the first r output positions of GetBatchWithDict (r its return value)
\* hold dictionary[index_k] for the k-th decoded index, in order, also when
\* the stream ends before batch_size values (r < batch_size).
C8_DictOutput ==
    (rle_intact /\ rle_call.op = "GetBatchWithDict" /\ rle_call.err = NoError)
    => \A k \in 1..rle_call.ret :
         InOriginal(k)
           => rle_call.out[k] = DictAt(RleDictionary(bit_width_), Expected(k))

RowValid(i) ==
    descr.max_def = 0 \/ call.gdf.definition_levels[i] = descr.max_def

\* C10: when ToGdfColumn returns, null_count + popcount(mask) = row_count
\* over the rows read, bit i of the mask describes row i across all batches
\* and pages, and the number of dense values equals popcount(mask).
C10_GdfMaskInvariant ==
    (call.op = "ToGdfColumn" /\ call.err = NoError)
    => /\ call.gdf.rows <= Len(call.gdf.valid)
       /\ call.gdf.null_count + PopCount(Take(call.gdf.valid, call.gdf.rows))
            = call.gdf.rows
       /\ \A i \in 1..Min(call.gdf.rows, Len(call.gdf.valid)) :
            call.gdf.valid[i] = 1 <=> RowValid(i)
       /\ call.gdf.values_read_counter
            = PopCount(Take(call.gdf.valid, call.gdf.rows))

\* some level lies strictly above max_definition_level
LevelAboveMax ==
    \E i \in DOMAIN bm_in.def_levels : bm_in.def_levels[i] > bm_in.max_definition_level

\* C11: the conversion of definition levels to a bitmap fails with the
\* "definition level exceeds maximum" error whenever some level is strictly
\* greater than max_definition_level, with max_repetition_level = 0 and with
\* max_repetition_level > 0 alike.
C11_LevelAboveMaxRejected ==
    (bm_out # NoBitmap /\ LevelAboveMax) => bm_out.err = ErrLevelExceedsMax

(***************************************************************************)
(* Claims about ToGdfColumn.                                               *)
(***************************************************************************)
\* the definition levels and the values the pages after position pos carry
RECURSIVE LevelsFrom(_)
LevelsFrom(pos) ==
    IF pos >= Len(pages) THEN <<>> ELSE pages[pos + 1].def_levels \o LevelsFrom(pos + 1)

RECURSIVE ValuesFrom(_)
ValuesFrom(pos) ==
    IF pos >= Len(pages) THEN <<>> ELSE pages[pos + 1].values \o ValuesFrom(pos + 1)

\* ToGdfColumn was entered with the page at call.pre.pos loaded and untouched
FirstPage == call.pre.pos - 1

\* C12: when fewer values than rows were decoded, every row i whose
\* definition level is max_definition_level holds the k-th dense value, k the
\* number of valid rows up to i; the slots of invalid rows are not constrained.
C12_ScatterToRows ==
    (/\ call.op = "ToGdfColumn"
     /\ call.err = NoError
     /\ call.pre.pos > 0 /\ call.pre.ndec = 0
     /\ call.gdf.rows # call.gdf.values_read_counter)
    => \A i \in 1..call.gdf.rows :
         LevelsFrom(FirstPage)[i] = descr.max_def
         => call.gdf.data[i]
              = ValuesFrom(FirstPage)[ValidBefore(LevelsFrom(FirstPage), descr.max_def, i)]

C12_Witness ==
    /\ call.op = "ToGdfColumn"
    /\ call.err = NoError
    /\ pages = <<[type |-> "DATA_PAGE", encoding |-> "PLAIN", num_values |-> 3,
                  def_levels |-> <<1, 0, 1>>, rep_levels |-> <<>>,
                  values |-> <<5, 7>>]>>
    /\ call.gdf.rows = 3
    /\ call.gdf.values_read_counter = 2
    /\ call.gdf.data[1] = 5
    /\ call.gdf.data[3] = 7
    /\ Take(call.gdf.valid, 3) = <<1, 0, 1>>

(***************************************************************************)
(* Claims about the file-level read.                                       *)
(***************************************************************************)
FileReadEnded == status \notin {"idle", "open", "reading", "column"}

\* a column chunk as a writer produces it: an optional PLAIN dictionary page
\* first, then non-empty data pages, dictionary-encoded only after it
WellFormedChunk(ps) ==
    /\ ps # <<>>
    /\ \A k \in DOMAIN ps :
         \/ k = 1 /\ Len(ps) > 1 /\ ps[k] = DictionaryPage("PLAIN")
         \/ /\ ps[k].type = "DATA_PAGE"
            /\ ps[k].num_values > 0
            /\ \/ ps[k].encoding = "PLAIN"
               \/ ps[k].encoding = "RLE_DICTIONARY" /\ ps[1] = DictionaryPage("PLAIN")

WellFormedFile ==
    row_groups # <<>> /\ \A g \in DOMAIN row_groups : WellFormedChunk(row_groups[g])

\* the values a chunk's data pages encode
RECURSIVE ChunkValues(_)
ChunkValues(ps) ==
    IF ps = <<>> THEN <<>>
    ELSE (IF ps[1].type # "DATA_PAGE" THEN <<>>
          ELSE IF ps[1].encoding = "RLE_DICTIONARY"
          THEN [i \in DOMAIN ps[1].values |-> Dict[ps[1].values[i] + 1]]
          ELSE ps[1].values)
         \o ChunkValues(Drop(ps, 1))

RECURSIVE FileValues(_)
FileValues(groups) ==
    IF groups = <<>> THEN <<>> ELSE ChunkValues(groups[1]) \o FileValues(Drop(groups, 1))

\* C13: reading a file of several row groups ends with the column holding
\* the row groups' values one after the other in row-group order, the rows of
\* row group k starting at the row count of the row groups before it.
C13_RowGroupsConcatenated ==
    (FileReadEnded /\ WellFormedFile)
    => /\ status = GDF_SUCCESS
       /\ gdf_column.size = FileRows(row_groups)
       /\ gdf_column.data = FileValues(row_groups)

(***************************************************************************)
(* Claims about the errors of ReadNewPage.                                 *)
(***************************************************************************)
\* page k is a dictionary page the reader can configure
PlainDictionaryPage(k) ==
    /\ pages[k].type = "DICTIONARY_PAGE"
    /\ pages[k].encoding \in {"PLAIN", "PLAIN_DICTIONARY"}

\* page k is a second dictionary page of the column
SecondDictionaryPage(k) ==
    PlainDictionaryPage(k) /\ \E j \in 1..(k - 1) : PlainDictionaryPage(j)

\* the pages the last call fetched
Fetched == (call.pre.pos + 1)..pager_pos

\* C14: a second dictionary page of the column, PLAIN or PLAIN_DICTIONARY
\* after PLAIN or PLAIN_DICTIONARY, ends the call that fetches it with the
\* "more than one dictionary" error; the reader never goes past it within
\* the call, and the dictionary in use stays the first page's.
C14_SecondDictionaryRejected ==
    call.op # "none"
    => /\ \A k \in Fetched :
            SecondDictionaryPage(k)
            => k = pager_pos /\ call.err = ErrMoreThanOneDictionary
       /\ "RLE_DICTIONARY" \in decoders_
          => \E j \in 1..pager_pos :
                /\ PlainDictionaryPage(j)
                /\ ~SecondDictionaryPage(j)
                /\ dictionary = pages[j].values

C14_Witness ==
    /\ call.op = "ReadNewPage"
    /\ pages = <<DictionaryPage("PLAIN"), DictionaryPage("PLAIN_DICTIONARY")>>
    /\ pager_pos = 2
    /\ call.err = ErrMoreThanOneDictionary
    /\ decoders_ = {"RLE_DICTIONARY"}

\* page k holds dictionary indices
DictionaryEncodedDataPage(k) ==
    /\ pages[k].type = "DATA_PAGE"
    /\ pages[k].encoding \in {"RLE_DICTIONARY", "PLAIN_DICTIONARY"}

\* C15: a data page encoded as RLE_DICTIONARY or PLAIN_DICTIONARY that is
\* fetched before any dictionary page of the column ends the call with the
\* "Dictionary page must be before data page" error.
C15_DictionaryBeforeData ==
    call.op # "none"
    => \A k \in Fetched :
         (/\ DictionaryEncodedDataPage(k)
          /\ \A j \in 1..(k - 1) : pages[j].type # "DICTIONARY_PAGE")
         => k = pager_pos /\ call.err = ErrDictionaryBeforeData

C15_Witness ==
    /\ call.op = "ReadNewPage"
    /\ pager_pos = 1
    /\ pages[1].type = "DATA_PAGE"
    /\ pages[1].encoding = "PLAIN_DICTIONARY"
    /\ call.err = ErrDictionaryBeforeData

\* the errors raised through ParquetException::NYI, and the other
\* ParquetExceptions of the reader
NotImplemented == {ErrDictionaryNYI, ErrUnsupportedEncoding}

ProtocolError ==
    {ErrMoreThanOneDictionary, ErrDictionaryBeforeData, ErrLevelsMismatch,
     ErrLevelExceedsMax, ErrUnknownEncoding}

\* page k has an encoding the reader has no decoder for
UnsupportedPage(k) ==
    \/ /\ pages[k].type = "DATA_PAGE"
       /\ pages[k].encoding \notin {"PLAIN", "RLE_DICTIONARY", "PLAIN_DICTIONARY"}
    \/ /\ pages[k].type = "DICTIONARY_PAGE"
       /\ pages[k].encoding \notin {"PLAIN", "PLAIN_DICTIONARY"}

\* C16: a data page of an unknown or unimplemented value encoding, and a
\* dictionary page that is neither PLAIN nor PLAIN_DICTIONARY, end the call
\* that fetches them with a NotImplemented error, which is none of the
\* protocol errors.
C16_UnsupportedIsNotImplemented ==
    call.op # "none"
    => \A k \in Fetched :
         UnsupportedPage(k)
         => /\ k = pager_pos
            /\ call.err \in NotImplemented
            /\ call.err \notin ProtocolError

\* the errors ReadNewPage raises for a data page
DataPageError ==
    {ErrDictionaryBeforeData, ErrUnsupportedEncoding, ErrUnknownEncoding}

\* C19: when ReadNewPage raises an error for a data page, num_buffered_values_,
\* num_decoded_values_ and the current decoder are what they were before the
\* call, so that a later HasNext() does not report the failed page.
C19_FailedPageLeavesCounters ==
    (call.op = "ReadNewPage" /\ call.err \in DataPageError)
    => /\ num_buffered_values_ = call.pre.nbuf
       /\ num_decoded_values_ = call.pre.ndec
       /\ current_decoder_ = call.pre.cur

\* the rows a batch of call.n covers, and the levels each level decoder
\* hands out for it
BatchSize == Min(call.n, call.avail)

DecodedDefLevels == Min(BatchSize, call.avail_levels)

DecodedRepLevels == Min(BatchSize, call.avail_rep_levels)

C18_ToGdfColumnTerminates ==
    call.op = "ToGdfColumn" => call.err # Diverges

\* C20: a ProtocolError or NotImplemented raised while a column is decoded
\* ends the file-level read with the single status GDF_IO_ERROR.
C20_ErrorsReportedAsIoError ==
    (/\ FileReadEnded
     /\ call.op = "ToGdfColumn"
     /\ call.err \in ProtocolError \cup NotImplemented)
    => status = GDF_IO_ERROR

(***************************************************************************)
(* Claims about column types, allocation and release in read_parquet.      *)
(***************************************************************************)
\* read_parquet has returned a status to its caller
Returned == status \in {GDF_SUCCESS, GDF_IO_ERROR}

\* the column's type has no gdf dtype
UnsupportedType == DTypeFrom(column_type) = GDF_invalid

\* C21: when the column's physical or logical type has no gdf dtype,
\* read_parquet returns GDF_IO_ERROR; it never returns GDF_SUCCESS with the
\* column's dtype left invalid.
C21_UnsupportedTypeIsIoError ==
    (alloc_fail = "none" /\ Returned)
    => /\ UnsupportedType => status = GDF_IO_ERROR
       /\ status = GDF_SUCCESS => dtype # GDF_invalid

\* C22: when the data buffer or the validity buffer of the output column
\* cannot be acquired, read_parquet returns an error and hands nothing out
\* through its out parameters.
C22_AllocationFailureIsFatal ==
    (alloc_fail # "none" /\ Returned /\ heap # {})
    => /\ status = GDF_IO_ERROR
       /\ out_gdf_columns = NoOut

\* the read has left read_parquet: by a return or by an exception
Exited == Returned \/ status \in ProtocolError \cup NotImplemented

\* C23: on every exit path of a file read the level buffers of _ReadFile
\* are freed, and after a failed read no column array or column buffer
\* that it allocated is still live.
C23_BuffersReleased ==
    Exited
    => /\ heap \cap LevelBuffers = {}
       /\ status # GDF_SUCCESS => heap \cap ({GdfColumns} \cup ColumnBuffers) = {}

(***************************************************************************)
(* Claims about RleDecoder::Reset.                                         *)
(***************************************************************************)
\* the decoder as its constructor leaves it
RleConstructed(bit_width) ==
    [pos |-> 0, bit_width |-> bit_width, current_value |-> 0, repeat_count |-> 0,
     literal_count |-> 0]

\* the first GetBatch of a decoder constructed over the page
FirstDecode(batch_size) ==
    GetBatch(rle_buffer, RleConstructed(bit_width_), batch_size)

\* C24: the GetBatch that follows a Reset over the same page returns the
\* count, the values and the error the first decode of the page returns,
\* whatever run the decoder was in when it was reset.
C24_ResetIdempotent ==
    (rle_call.op = "GetBatch" /\ rle_call.reset # "none")
    => /\ rle_call.ret = FirstDecode(rle_call.n).ret
       /\ rle_call.out = FirstDecode(rle_call.n).out
       /\ rle_call.err = FirstDecode(rle_call.n).err

C24_Witness ==
    /\ rle_call.op = "GetBatch"
    /\ rle_call.reset = "repeated run"
    /\ rle_call.ret > 1
    /\ rle_call.err = NoError

\* C25: Reset with a bit width outside [0, 64] fails with a ProtocolError
\* and leaves the decoder as it was; with a bit width inside it sets
\* current_value, repeat_count and literal_count to zero.
C25_ResetChecksBitWidth ==
    rle_call.op = "Reset"
    => IF rle_call.n \in InvalidBitWidths
       THEN /\ rle_call.err \in ProtocolError
            /\ bit_width_ \notin InvalidBitWidths
       ELSE /\ rle_call.err = NoError
            /\ current_value_ = 0
            /\ repeat_count_ = 0
            /\ literal_count_ = 0

(***************************************************************************)
(* Claims about the bitmap frame.                                          *)
(***************************************************************************)
\* bit i (from 1) of the bitmap lies in the batch written at the offset
InBatch(i) ==
    /\ i > bm_in.valid_bits_offset
    /\ i <= bm_in.valid_bits_offset + Len(bm_in.def_levels)

\* C26: a batch of L validity bits written at bit offset k changes only
\* bits k..k+L-1 of the bitmap; the bits before k, written by earlier
\* batches, and the bits from k+L on are as they were.
C26_BitmapFrame ==
    bm_out # NoBitmap
    => /\ Len(bm_out.bits) = Len(bm_in.null_bitmap)
       /\ \A i \in DOMAIN bm_in.null_bitmap :
            ~InBatch(i) => bm_out.bits[i] = bm_in.null_bitmap[i]

C26_Witness ==
    /\ bm_out # NoBitmap
    /\ bm_out.err = NoError
    /\ bm_in.valid_bits_offset = 3
    /\ bm_in.null_bitmap[1] = 1
    /\ Len(bm_in.def_levels) >= 2
    /\ \E i \in 1..(2 * BitsPerByte) : InBatch(i) /\ bm_out.bits[i] = 0
    /\ \A i \in 1..3 : bm_out.bits[i] = 1

(***************************************************************************)
(* Claims about the spaced dictionary read.                                *)
(***************************************************************************)
\* the valid positions among the first i of the batch
ValidUpTo(i) == CountEq(Take(rle_call.valid, i), 1)

\* C27: GetBatchWithDictSpaced leaves the positions flagged invalid
\* untouched in the output and takes one index of the stream per valid
\* position, in repeated and in literal runs: the k-th valid position holds
\* the dictionary entry of the k-th index that follows the ones taken before.
C27_SpacedSkipsInvalid ==
    (rle_intact /\ rle_call.op = "GetBatchWithDictSpaced")
    => /\ rle_call.err = NoError
       /\ \A i \in 1..rle_call.ret :
            IF rle_call.valid[i] = 0
            THEN rle_call.out[i] = Untouched
            ELSE InOriginal(ValidUpTo(i))
                 => rle_call.out[i]
                      = DictAt(RleDictionary(bit_width_), Expected(ValidUpTo(i)))

(***************************************************************************)
(* Claims about ReadNewPage.                                               *)
(***************************************************************************)
\* the key the decoder cache holds the decoder of a data page under
CacheKey(page) ==
    IF page.encoding \in {"PLAIN_DICTIONARY", "RLE_DICTIONARY"}
    THEN "RLE_DICTIONARY" ELSE page.encoding

\* C30: ReadNewPage pulls pages until it finds a data page or the source is
\* exhausted; pages that are neither dictionary nor data pages leave the
\* reader as it was; when it returns true the current decoder is the cached
\* decoder of the page's encoding (one key for PLAIN_DICTIONARY and
\* RLE_DICTIONARY), bound to the page's values, num_buffered_values_ is the
\* page's num_values and num_decoded_values_ is 0.
C30_ReadNewPageStopsAtData ==
    (call.op = "ReadNewPage" /\ call.err = NoError)
    => /\ \A k \in Fetched : k < pager_pos => pages[k].type # "DATA_PAGE"
       /\ IF call.ret
          THEN /\ pager_pos \in Fetched
               /\ pages[pager_pos].type = "DATA_PAGE"
               /\ current_decoder_ = CacheKey(pages[pager_pos])
               /\ current_decoder_ \in decoders_
               /\ decoder_data[current_decoder_] = pages[pager_pos].values
               /\ num_buffered_values_ = pages[pager_pos].num_values
               /\ num_decoded_values_ = 0
          ELSE /\ pager_pos = Len(pages)
               /\ \A k \in Fetched : pages[k].type # "DATA_PAGE"
               /\ (\A k \in Fetched : pages[k].type = "INDEX_PAGE")
                  => /\ num_buffered_values_ = call.pre.nbuf
                     /\ num_decoded_values_ = call.pre.ndec
                     /\ current_decoder_ = call.pre.cur

C30_Witness ==
    /\ call.op = "ReadNewPage"
    /\ call.err = NoError
    /\ call.ret = TRUE
    /\ pages[pager_pos].encoding = "PLAIN_DICTIONARY"
    /\ current_decoder_ = "RLE_DICTIONARY"
    /\ \E k \in Fetched : pages[k].type = "DICTIONARY_PAGE"

(***************************************************************************)
(* Claims about the size of the columns a file read returns.               *)
(***************************************************************************)
\* the rows of the column that the row-group loop stored a value in
RowsWritten == Cardinality({i \in DOMAIN gdf_column.data : gdf_column.data[i] # Untouched})

\* C29: after a successful file read the returned column has size equal to
\* the total row count of the file, and the number of rows the row-group
\* loop wrote into it does not exceed that size.
C29_ColumnSizeIsRowCount ==
    status = GDF_SUCCESS
    => /\ gdf_column.size = FileRows(row_groups)
       /\ RowsWritten <= gdf_column.size

(***************************************************************************)
(* Claims about readers of distinct columns.                               *)
(***************************************************************************)
\* the running column's reader taken alone through history from its
\* construction: what its last operation returns
RECURSIVE RunAlone(_, _)
RunAlone(r, history) ==
    IF Len(history) = 1 THEN Apply(r, history[1])
    ELSE RunAlone(Apply(r, history[1]).r, Drop(history, 1))

DictionaryEncoded(page) ==
    page.type = "DATA_PAGE" /\ page.encoding \in {"PLAIN_DICTIONARY", "RLE_DICTIONARY"}

\* one dictionary page, and it comes before every dictionary-encoded data page
DictionaryPrecedes(ps) ==
    /\ Cardinality({k \in DOMAIN ps : ps[k].type = "DICTIONARY_PAGE"}) = 1
    /\ \A k \in DOMAIN ps :
          DictionaryEncoded(ps[k]) => \E j \in 1..(k - 1) : ps[j].type = "DICTIONARY_PAGE"

\* C31: when the dictionary page precedes all dictionary-encoded data
\* pages, ReadNewPage binds each dictionary-encoded data page to the
\* dictionary decoder and its assertion on the current decoder holds, also
\* when PLAIN data pages lie between the dictionary page and that page.
C31_DictionaryPageBound ==
    (/\ call.op = "ReadNewPage"
     /\ DictionaryPrecedes(pages)
     /\ pager_pos \in Fetched
     /\ DictionaryEncoded(pages[pager_pos]))
    => /\ call.err = NoError
       /\ ~aborted
       /\ current_decoder_ = "RLE_DICTIONARY"
       /\ decoder_data["RLE_DICTIONARY"] = pages[pager_pos].values

(***************************************************************************)
(* Claims about ReadBatchSpaced without spaced values.                     *)
(***************************************************************************)
\* C32: on a column without spaced nullability ReadBatchSpaced marks every
\* decoded value valid (bits valid_bits_offset .. valid_bits_offset +
\* values - 1 set, null count 0) and consumes exactly levels_read buffered
\* values; when HasNext() is false it returns 0 with levels_read,
\* values_read and nulls_count all 0.
C32_DensePathAllValid ==
    (call.op = "ReadBatchSpaced" /\ call.err = NoError /\ ~HasSpacedValues(descr))
    => IF call.avail = 0
       THEN /\ call.ret = 0
            /\ call.levels_read = 0
            /\ call.values_read = 0
            /\ call.nulls_count = 0
       ELSE /\ call.valid_bits =
                 [i \in 1..BitsPerByte |->
                     IF call.offset < i /\ i <= call.offset + call.ret THEN 1 ELSE 0]
            /\ call.nulls_count = 0
            /\ Len(call.values) = call.ret
            /\ \A i \in DOMAIN call.values : call.values[i] # Untouched
            /\ num_decoded_values_ = call.dec0 + call.levels_read

C32_Witness ==
    /\ call.op = "ReadBatchSpaced"
    /\ call.err = NoError
    /\ descr.max_def > 0
    /\ ~HasSpacedValues(descr)
    /\ call.offset = 1
    /\ call.ret = 1
    /\ call.levels_read = 2
    /\ call.valid_bits[2] = 1

(***************************************************************************)
(* Claims about the repetition-aware bitmap builder.                       *)
(***************************************************************************)
\* the level opens a bitmap position: it is the maximum or one below it
IsRow(level) ==
    level = bm_in.max_definition_level \/ level = bm_in.max_definition_level - 1

C34_RequiredColumnAllValid ==
    (call.op = "ToGdfColumn" /\ descr.max_def = 0)
    => /\ call.err # ErrLevelExceedsMax
       /\ call.err = NoError
          => /\ call.gdf.null_count = 0
             /\ \A i \in 1..call.gdf.rows : call.gdf.valid[i] = 1

(***************************************************************************)
(* Claims about the temporary validity buffer of ToGdfColumn.              *)
(***************************************************************************)
\* C35: every validity bit ToGdfColumn writes lies inside the temporary
\* validity buffer it allocated from the buffered-value count of the page
\* current at entry, also for a column chunk of several data pages.
C35_MaskWritesInBuffer ==
    call.op = "ToGdfColumn" => ~call.gdf.oob

(***************************************************************************)
(* Claims about how requests to the RleDecoder are batched.                *)
(***************************************************************************)
IsSplit == rle_call.op \in {"GetBatch", "GetBatchWithDict"} /\ rle_call.first.err = NoError

\* the values the caller holds after the two requests, and after the one
SplitValues ==
    Take(rle_call.first.out, rle_call.first.ret)
        \o Take(rle_call.second.out, rle_call.second.ret)

JointValues == Take(rle_call.joint.out, rle_call.joint.ret)

\* C36: GetBatch(a) followed by GetBatch(b) writes the same value sequence
\* and leaves the decoder in the same state as one GetBatch(a + b), for any
\* stream and any a, b >= 0; the same for GetBatchWithDict.
C36_BatchingIndependent ==
    IsSplit
    => /\ rle_call.second.err = rle_call.joint.err
       /\ rle_call.joint.err = NoError
          => /\ SplitValues = JointValues
             /\ rle_call.second.st = rle_call.joint.st

(***************************************************************************)
(* Claims about streams that end inside a run.                             *)
(***************************************************************************)
\* C37: when the stream ends after a repeated-run header but before the
\* run's value, or a literal run's header announces more values than the
\* remaining bytes hold, GetBatch returns no more than the number of values
\* it decoded from the stream and emits no copies of a stale current_value.
C37_TruncatedRunNotCounted ==
    (~rle_intact /\ rle_call.op = "GetBatch")
    => /\ rle_call.err = NoError
       /\ \A k \in 1..rle_call.ret :
            /\ rle_call.out[k] # Untouched
            /\ InOriginal(k) => rle_call.out[k] = Expected(k)

(***************************************************************************)
(* read_parquet: the columns the filter selects and the slots it fills.    *)
(***************************************************************************)
MaxColumns == 2
MaxFilter == 3

FileNames == {"a", "b", "c"}
AskedNames == {"a", "b", "x"}

Distinct(q) == \A i, j \in DOMAIN q : q[i] = q[j] => i = j

\* ColumnNames::Size
Size(names) == Len(names)

\* ColumnNames::IndexOf: std::find, the end position when the name is absent
IndexOf(names, name) ==
    IF \E i \in DOMAIN names : names[i] = name
    THEN (CHOOSE i \in DOMAIN names :
            names[i] = name /\ \A j \in 1..(i - 1) : names[j] # name) - 1
    ELSE Size(names)

\* ColumnNames::Contains
Contains(names, index) == index < Size(names)

RECURSIVE IndicesLoop(_, _, _, _)
IndicesLoop(filter, names, i, indices) ==
    IF i >= Len(filter) THEN indices
    ELSE LET index == IndexOf(names, filter[i + 1])
         IN  IndicesLoop(filter, names, i + 1,
                         IF Contains(names, index) THEN Append(indices, index)
                         ELSE indices)

\* ColumnFilter::IndicesFrom
IndicesFrom(filter, names) ==
    IF filter = <<>> THEN [i \in 1..Size(names) |-> i - 1]
    ELSE IndicesLoop(filter, names, 0, <<>>)

\* read_parquet after the file is open: num_slots gdf_column slots are
\* created, _AllocateGdfColumns and _ReadFile go through gdf_columns[i] for
\* every i below indices.size()
SelectColumns(indices, num_slots) ==
    [op |-> "read_parquet", indices |-> indices, slots |-> num_slots,
     written |-> {i \in 0..(Len(indices) - 1) : TRUE},
     length |-> Len(indices)]

FilterInit ==
    /\ column_names \in {q \in SeqsUpTo(FileNames, MaxColumns) : q # <<>> /\ Distinct(q)}
    /\ filter_names \in SeqsUpTo(AskedNames, MaxFilter)
    /\ read_call = NoReadCall

\* read_parquet with _CreateGdfColumns(metadata->num_columns())
DoReadParquetNumColumns ==
    /\ read_call = NoReadCall
    /\ read_call' = SelectColumns(IndicesFrom(filter_names, column_names),
                                  Size(column_names))
    /\ UNCHANGED <<column_names, filter_names>>
    /\ UNCHANGED <<readerVars, rleVars, bmVars, fileVars, twoVars, binVars>>

\* read_parquet with _CreateGdfColumns(indices.size())
DoReadParquetIndicesSize ==
    /\ read_call = NoReadCall
    /\ \E indices \in {IndicesFrom(filter_names, column_names)} :
         read_call' = SelectColumns(indices, Len(indices))
    /\ UNCHANGED <<column_names, filter_names>>
    /\ UNCHANGED <<readerVars, rleVars, bmVars, fileVars, twoVars, binVars>>

FilterSpecInit ==
    /\ FilterInit /\ BinIdle
    /\ ReaderIdle /\ RleIdle /\ BmIdle /\ FileIdle /\ TwoIdle
    /\ NDEBUG = TRUE /\ aborted = FALSE

FilterNext == DoReadParquetNumColumns \/ DoReadParquetIndicesSize

SpecFilter == FilterSpecInit /\ [][FilterNext]_vars

(***************************************************************************)
(* getOperatorName: the operation struct a binary operator is run with.    *)
(***************************************************************************)
MaxNameCalls == 2

\* gdf_binary_operator
Operators ==
    {"GDF_ADD", "GDF_SUB", "GDF_MUL", "GDF_DIV", "GDF_TRUE_DIV",
     "GDF_FLOOR_DIV", "GDF_MOD", "GDF_POW", "GDF_COMBINE", "GDF_COMBINE_FIRST",
     "GDF_ROUND", "GDF_EQUAL", "GDF_NOT_EQUAL", "GDF_LESS", "GDF_GREATER",
     "GDF_LESS_EQUAL", "GDF_GREATER_EQUAL", "GDF_PRODUCT", "GDF_DOT"}

getOperatorName(ope) ==
    CASE ope = "GDF_ADD" -> "Add"
      [] ope = "GDF_SUB" -> "Sub"
      [] ope = "GDF_MUL" -> "Mul"
      [] ope = "GDF_DIV" -> "Div"
      [] ope = "GDF_TRUE_DIV" -> "TrueDiv"
      [] ope = "GDF_FLOOR_DIV" -> "FloorDiv"
      [] ope = "GDF_MOD" -> "Pow"
      [] ope = "GDF_COMBINE_FIRST" -> "CombineFirst"
      [] ope = "GDF_ROUND" -> "Round"
      [] ope = "GDF_EQUAL" -> "Equal"
      [] ope = "GDF_NOT_EQUAL" -> "NotEqual"
      [] ope = "GDF_LESS" -> "Less"
      [] ope = "GDF_GREATER" -> "Greater"
      [] ope = "GDF_LESS_EQUAL" -> "LessEqual"
      [] ope = "GDF_GREATER_EQUAL" -> "GreaterEqual"
      [] OTHER -> "None"

\* the structs of the JIT operation source, by the operator each implements
OperationStruct ==
    [o \in {"GDF_ADD", "GDF_SUB", "GDF_MUL", "GDF_DIV", "GDF_TRUE_DIV",
             "GDF_FLOOR_DIV", "GDF_MOD", "GDF_POW", "GDF_EQUAL",
             "GDF_NOT_EQUAL", "GDF_LESS", "GDF_GREATER", "GDF_LESS_EQUAL",
             "GDF_GREATER_EQUAL"} |->
        CASE o = "GDF_ADD" -> "Add"
          [] o = "GDF_SUB" -> "Sub"
          [] o = "GDF_MUL" -> "Mul"
          [] o = "GDF_DIV" -> "Div"
          [] o = "GDF_TRUE_DIV" -> "TrueDiv"
          [] o = "GDF_FLOOR_DIV" -> "FloorDiv"
          [] o = "GDF_MOD" -> "Mod"
          [] o = "GDF_POW" -> "Pow"
          [] o = "GDF_EQUAL" -> "Equal"
          [] o = "GDF_NOT_EQUAL" -> "NotEqual"
          [] o = "GDF_LESS" -> "Less"
          [] o = "GDF_GREATER" -> "Greater"
          [] o = "GDF_LESS_EQUAL" -> "LessEqual"
          [] o = "GDF_GREATER_EQUAL" -> "GreaterEqual"]

OperatorInit == op_calls = <<>>

DoGetOperatorName ==
    /\ Len(op_calls) < MaxNameCalls
    /\ \E ope \in Operators :
         op_calls' = Append(op_calls, [ope |-> ope, name |-> getOperatorName(ope)])
    /\ UNCHANGED <<readerVars, rleVars, bmVars, fileVars, twoVars, apiVars>>

OperatorSpecInit ==
    /\ OperatorInit /\ ApiIdle
    /\ ReaderIdle /\ RleIdle /\ BmIdle /\ FileIdle /\ TwoIdle
    /\ NDEBUG = TRUE /\ aborted = FALSE

OperatorNext == DoGetOperatorName

SpecOperator == OperatorSpecInit /\ [][OperatorNext]_vars

(***************************************************************************)
(* Claims about run headers that use all 32 bits.                          *)
(***************************************************************************)
\* C38: for every 32-bit run-header value, also those whose count times 8
\* does not fit in 31 bits or that are negative as a signed 32-bit integer,
\* each iteration of the GetBatch loop copies a non-negative number of
\* values and values_read stays within [0, batch_size].
C38_RunCountsInRange ==
    rle_call.op = "GetBatch"
    => /\ rle_call.err # Undefined
       /\ 0 <= rle_call.ret
       /\ rle_call.ret <= rle_call.n

(***************************************************************************)
(* Claims about the column filter and the operator names.                  *)
(***************************************************************************)
FoundNames == SelectSeq(filter_names, LAMBDA n : \E i \in DOMAIN column_names : column_names[i] = n)

\* C39: for every column-name filter, repeated and absent names included,
\* read_parquet selects one index per filter name found in the file, in
\* filter order (every column when the filter is empty), reports that count
\* in out_gdf_columns_length, and initialises only slots inside the array
\* it allocated.
C39_FilterSelectsWithinSlots ==
    read_call.op = "read_parquet"
    => /\ IF filter_names = <<>>
          THEN read_call.indices = [i \in 1..Len(column_names) |-> i - 1]
          ELSE /\ Len(read_call.indices) = Len(FoundNames)
               /\ \A k \in DOMAIN FoundNames :
                    column_names[read_call.indices[k] + 1] = FoundNames[k]
       /\ read_call.length = Len(read_call.indices)
       /\ read_call.slots >= Len(read_call.indices)
       /\ \A i \in read_call.written : i < read_call.slots

\* C40: for every binary operator that has a struct in the JIT operation
\* source, getOperatorName returns the name of that operator's own struct,
\* and no two distinct operators get the same name.
C40_OperatorNamesOwnStruct ==
    /\ \A k \in DOMAIN op_calls :
         op_calls[k].ope \in DOMAIN OperationStruct
         => op_calls[k].name = OperationStruct[op_calls[k].ope]
    /\ \A j, k \in DOMAIN op_calls :
         (/\ op_calls[j].ope \in DOMAIN OperationStruct
          /\ op_calls[k].ope \in DOMAIN OperationStruct
          /\ op_calls[j].ope # op_calls[k].ope)
         => op_calls[j].name # op_calls[k].name

=============================================================================
